---- MODULE Spec2Model ----
(***************************************************************************)
(* Binder and symbol resolver of the compiler front end (src/program.ts).  *)
(*                                                                         *)
(* Program.initialize is modelled statement by statement: one action per   *)
(* top-level statement kind, then the two post-passes over the queued      *)
(* imports and the queued exports, one action per loop position.  The      *)
(* handlers themselves are operators over a record of the program's maps,  *)
(* so that a namespace can recurse into its members.  Entities live in an  *)
(* arena (a sequence of records); a reference is an index into it, and     *)
(* Null stands for JavaScript's null and undefined.                        *)
(***************************************************************************)
EXTENDS Integers, Sequences, FiniteSets, TLC

(***************************************************************************)
(* Name mangling and diagnostic codes                                      *)
(***************************************************************************)
PATH_DELIMITER == "/"
STATIC_DELIMITER == "."
INSTANCE_DELIMITER == "#"
GETTER_PREFIX == "get:"
SETTER_PREFIX == "set:"

Duplicate_identifier_0 == "Duplicate_identifier_0"
Export_declaration_conflicts_with_exported_declaration_of_0 == "Export_declaration_conflicts_with_exported_declaration_of_0"
Module_0_has_no_exported_member_1 == "Module_0_has_no_exported_member_1"
Cannot_find_name_0 == "Cannot_find_name_0"
Operation_not_supported == "Operation_not_supported"
Expected_0_type_arguments_but_got_1 == "Expected_0_type_arguments_but_got_1"
Property_0_does_not_exist_on_type_1 == "Property_0_does_not_exist_on_type_1"

\* null / undefined as an Element reference; entity references are 1, 2, ...
Null == 0

(***************************************************************************)
(* Map<string, V>: a function over the keys set so far                     *)
(***************************************************************************)
EmptyMap == <<>>
Has(m, k) == k \in DOMAIN m
Get(m, k) == IF k \in DOMAIN m THEN m[k] ELSE Null
Put(m, k, v) == [x \in (DOMAIN m) \cup {k} |-> IF x = k THEN v ELSE m[x]]

(***************************************************************************)
(* The AST the binder consumes.  Every declaration node carries the        *)
(* attributes the handlers read; internalName is precomputed by the parser *)
(* (mangleInternalName).                                                   *)
(***************************************************************************)
\* The absent internalPath of a local export statement, an absent type node.
NoPath == ""
NoNode == <<>>

mangleInternalName(parentInternalName, delimiter, name) == parentInternalName \o delimiter \o name

\* a type node of file `source` (node.range.source.internalPath) without type arguments
TypeNode(source, name) == [identifier |-> name, typeArguments |-> <<>>, source |-> source]
ParameterNode(name, type) == [name |-> name, type |-> type]

FunctionDeclaration(parent, delim, name, modifiers, decorators, typeParameters, parameters, returnType) ==
  [kind |-> "FUNCTION", name |-> name, internalName |-> mangleInternalName(parent, delim, name),
   modifiers |-> modifiers, decorators |-> decorators, typeParameters |-> typeParameters,
   parameters |-> parameters, returnType |-> returnType]

MethodDeclaration(class, name, modifiers, typeParameters, parameters, returnType) ==
  [kind |-> "METHOD", name |-> name,
   internalName |-> mangleInternalName(class, IF "STATIC" \in modifiers THEN STATIC_DELIMITER ELSE INSTANCE_DELIMITER, name),
   modifiers |-> modifiers, decorators |-> <<>>, typeParameters |-> typeParameters,
   parameters |-> parameters, returnType |-> returnType]

FieldDeclaration(class, name, modifiers, type) ==
  [kind |-> "FIELD", name |-> name,
   internalName |-> mangleInternalName(class, IF "STATIC" \in modifiers THEN STATIC_DELIMITER ELSE INSTANCE_DELIMITER, name),
   modifiers |-> modifiers, type |-> type]

ClassDeclaration(kind, parent, delim, name, modifiers, decorators, typeParameters, members) ==
  [kind |-> kind, name |-> name, internalName |-> mangleInternalName(parent, delim, name),
   modifiers |-> modifiers, decorators |-> decorators, typeParameters |-> typeParameters,
   members |-> members]

EnumDeclaration(parent, delim, name, modifiers, valueNames) ==
  [kind |-> "ENUM", name |-> name, internalName |-> mangleInternalName(parent, delim, name),
   modifiers |-> modifiers, decorators |-> <<>>,
   values |-> [i \in 1..Len(valueNames) |->
                 [name |-> valueNames[i],
                  internalName |-> mangleInternalName(mangleInternalName(parent, delim, name), STATIC_DELIMITER, valueNames[i])]]]

NamespaceDeclaration(parent, delim, name, modifiers, members) ==
  [kind |-> "NAMESPACE", name |-> name, internalName |-> mangleInternalName(parent, delim, name),
   modifiers |-> modifiers, decorators |-> <<>>, members |-> members]

VariableDeclaration(parent, delim, name, modifiers, decorators) ==
  [name |-> name, internalName |-> mangleInternalName(parent, delim, name),
   modifiers |-> modifiers, decorators |-> decorators]

VariableStatement(declarations) == [kind |-> "VARIABLE", declarations |-> declarations]

TypeDeclaration(name, alias) == [kind |-> "TYPEDECLARATION", name |-> name, alias |-> alias]

\* export { identifier as externalIdentifier } [from internalPath]; in file `source`
ExportStatement(source, identifier, externalIdentifier, internalPath) ==
  [kind |-> "EXPORT", internalPath |-> internalPath,
   members |-> << [source |-> source, identifier |-> identifier, externalIdentifier |-> externalIdentifier,
                   path |-> internalPath] >>]

\* import { externalIdentifier as name } from internalPath; in file `source`
ImportStatement(source, name, externalIdentifier, internalPath) ==
  [kind |-> "IMPORT", source |-> source, internalPath |-> internalPath, namespaceName |-> "",
   declarations |-> << [name |-> name, internalName |-> mangleInternalName(source, PATH_DELIMITER, name),
                        externalIdentifier |-> externalIdentifier, path |-> internalPath] >>]

\* import * as namespaceName from internalPath; in file `source`
ImportNamespaceStatement(source, namespaceName, internalPath) ==
  [kind |-> "IMPORT", source |-> source, internalPath |-> internalPath, namespaceName |-> namespaceName,
   declarations |-> <<>>]

Source(path, statements) == [internalPath |-> path, statements |-> statements]

(***************************************************************************)
(* Entities.  Every entity is a record in the arena `entities`; the fields *)
(* of Element (kind, simpleName, internalName, flags, members, namespace)  *)
(* are shared, the others belong to the kinds that declare them.  A        *)
(* members map that is still null is the empty map: the code allocates it  *)
(* only together with its first entry.                                     *)
(***************************************************************************)
ModifierFlags(modifiers, honoured) ==
  {f \in {"IMPORTED", "EXPORTED", "DECLARED", "CONSTANT", "GETTER", "SETTER", "READONLY"} :
     \E m \in modifiers \cap honoured :
        f = CASE m = "IMPORT" -> "IMPORTED" [] m = "EXPORT" -> "EXPORTED" [] m = "DECLARE" -> "DECLARED"
              [] m = "CONST" -> "CONSTANT" [] m = "GET" -> "GETTER" [] m = "SET" -> "SETTER"
              [] m = "READONLY" -> "READONLY" [] OTHER -> ""}

Element(kind, simpleName, internalName, flags, declaration) ==
  [kind |-> kind, simpleName |-> simpleName, internalName |-> internalName, flags |-> flags,
   members |-> EmptyMap, namespace |-> Null, declaration |-> declaration,
   classPrototype |-> Null, instances |-> EmptyMap, instanceMembers |-> EmptyMap,
   getterPrototype |-> Null, setterPrototype |-> Null]

Namespace(simpleName, internalName, declaration) ==
  Element("NAMESPACE", simpleName, internalName,
          ModifierFlags(declaration.modifiers, {"IMPORT", "EXPORT", "DECLARE"}), declaration)

Enum(simpleName, internalName, declaration) ==
  Element("ENUM", simpleName, internalName,
          ModifierFlags(declaration.modifiers, {"IMPORT", "EXPORT", "DECLARE", "CONST"}), declaration)

EnumValue(enm, simpleName, internalName, declaration) ==
  [Element("ENUMVALUE", simpleName, internalName, {}, declaration) EXCEPT !.classPrototype = enm]

Global(simpleName, internalName, declaration) ==
  Element("GLOBAL", simpleName, internalName,
          ModifierFlags(declaration.modifiers, {"IMPORT", "EXPORT", "DECLARE", "CONST"}), declaration)

FunctionPrototype(simpleName, internalName, declaration, classPrototype) ==
  [Element("FUNCTION_PROTOTYPE", simpleName, internalName,
           ModifierFlags(declaration.modifiers, {"IMPORT", "EXPORT", "DECLARE", "GET", "SET"})
             \cup (IF Len(declaration.typeParameters) # 0 THEN {"GENERIC"} ELSE {})
             \cup (IF classPrototype # Null THEN {"INSTANCE"} ELSE {}),
           declaration)
   EXCEPT !.classPrototype = classPrototype]

FieldPrototype(classPrototype, simpleName, internalName, declaration) ==
  [Element("FIELD_PROTOTYPE", simpleName, internalName,
           ModifierFlags(declaration.modifiers, {"EXPORT", "READONLY"}), declaration)
   EXCEPT !.classPrototype = classPrototype]

Property(simpleName, internalName, parent) ==
  [Element("PROPERTY", simpleName, internalName, {}, NoNode) EXCEPT !.classPrototype = parent]

ClassPrototype(kind, simpleName, internalName, declaration) ==
  Element(kind, simpleName, internalName,
          ModifierFlags(declaration.modifiers, {"IMPORT", "EXPORT", "DECLARE"})
            \cup (IF Len(declaration.typeParameters) # 0 THEN {"GENERIC"} ELSE {}),
          declaration)

isExported(element) == "EXPORTED" \in element.flags

hasModifier(kind, modifiers) == kind \in modifiers

hasDecorator(name, decorators) ==
  \E i \in 1..Len(decorators) :
     /\ decorators[i].kind = "IDENTIFIER"
     /\ decorators[i].arguments <= 1
     /\ decorators[i].name = name

(***************************************************************************)
(* The program record the handlers work on: the Program's maps, the arena, *)
(* the diagnostics emitted so far, and the two queues of initialize().     *)
(***************************************************************************)
error(p, code, args) == [p EXCEPT !.diagnostics = Append(@, [code |-> code, args |-> args])]

\* the reference the next allocated entity gets
NextRef(p) == Len(p.entities) + 1

Allocate(p, element) == [p EXCEPT !.entities = Append(@, element)]

SetMember(p, owner, name, ref) == [p EXCEPT !.entities[owner].members = Put(@, name, ref)]

SetInstanceMember(p, owner, name, ref) == [p EXCEPT !.entities[owner].instanceMembers = Put(@, name, ref)]

\* queuedExports: Map<string,QueuedExport>, kept in insertion order
QueuedIndex(queuedExports, name) ==
  IF \E i \in 1..Len(queuedExports) : queuedExports[i].name = name
  THEN CHOOSE i \in 1..Len(queuedExports) : queuedExports[i].name = name
  ELSE 0

QueuedHas(queuedExports, name) == QueuedIndex(queuedExports, name) # 0

QueuedExport(name, isReExport, referencedName, member) ==
  [name |-> name, isReExport |-> isReExport, referencedName |-> referencedName, member |-> member]

QueuedImport(internalName, referencedName, declaration) ==
  [internalName |-> internalName, referencedName |-> referencedName, declaration |-> declaration]

(***************************************************************************)
(* Declaration handlers (Program.initializeXxx).  Each takes the program   *)
(* record and returns it as the handler leaves it.                         *)
(***************************************************************************)
\* the @global alias block shared by initializeClass, initializeFunction and initializeVariables
GlobalAlias(p, declaration, ref) ==
  IF hasDecorator("global", declaration.decorators)
  THEN IF Has(p.elements, declaration.name)
       THEN error(p, Duplicate_identifier_0, <<declaration.internalName>>)
       ELSE [p EXCEPT !.elements = Put(@, declaration.name, ref)]
  ELSE p

initializeField(p, declaration, classPrototype) ==
  LET name == declaration.name
      internalName == declaration.internalName
      ref == NextRef(p)
  IN IF hasModifier("STATIC", declaration.modifiers)
     THEN IF Has(p.elements, internalName)
          THEN error(p, Duplicate_identifier_0, <<internalName>>)
          ELSE IF Has(p.entities[classPrototype].members, name)
          THEN error(p, Duplicate_identifier_0, <<internalName>>)
          ELSE LET p1 == Allocate(p, Global(name, internalName, declaration))
                   p2 == SetMember(p1, classPrototype, name, ref)
               IN [p2 EXCEPT !.elements = Put(@, internalName, ref)]
     ELSE IF Has(p.entities[classPrototype].instanceMembers, name)
          THEN error(p, Duplicate_identifier_0, <<internalName>>)
          ELSE SetInstanceMember(Allocate(p, FieldPrototype(classPrototype, name, internalName, declaration)),
                                 classPrototype, name, ref)

initializeAccessorOverwriting(p, declaration, classPrototype, isGetter) ==
  LET propertyName == declaration.name
      internalPropertyName == declaration.internalName
      existing == Get(p.elements, internalPropertyName)
      \* the Property is allocated first when it is new, the accessor's prototype after it
      p0 == IF existing # Null THEN p
            ELSE Allocate(p, Property(propertyName, internalPropertyName, classPrototype))
      propertyElement == IF existing # Null THEN existing ELSE NextRef(p)
      name == (IF isGetter THEN GETTER_PREFIX ELSE SETTER_PREFIX) \o propertyName
      ref == NextRef(p0)
      internalStaticName == p.entities[classPrototype].internalName \o STATIC_DELIMITER \o name
      internalInstanceName == p.entities[classPrototype].internalName \o INSTANCE_DELIMITER \o name
      WithAccessor(q) ==
        IF isGetter THEN [q EXCEPT !.entities[propertyElement].getterPrototype = ref]
        ELSE [q EXCEPT !.entities[propertyElement].setterPrototype = ref]
  IN IF existing # Null /\ p.entities[existing].kind # "PROPERTY"
     THEN error(p, Duplicate_identifier_0, <<internalPropertyName>>)
     ELSE IF hasModifier("STATIC", declaration.modifiers)
     THEN IF Has(p.elements, internalStaticName)
          THEN error(p, Duplicate_identifier_0, <<internalStaticName>>)
          ELSE LET p1 == Allocate(p0, FunctionPrototype(name, internalStaticName, declaration, Null))
                   p2 == SetMember(WithAccessor(p1), classPrototype, propertyName, propertyElement)
               IN [p2 EXCEPT !.elements = Put(@, internalPropertyName, propertyElement)]
     ELSE IF Has(p.entities[classPrototype].instanceMembers, name)
          THEN error(p, Duplicate_identifier_0, <<internalPropertyName>>)
          ELSE LET p1 == Allocate(p0, FunctionPrototype(name, internalInstanceName, declaration, classPrototype))
               IN SetInstanceMember(WithAccessor(p1), classPrototype, name, propertyElement)

initializeAccessor(p, declaration, classPrototype, isGetter) ==
  LET propertyName == declaration.name
      internalPropertyName == declaration.internalName
      existing == Get(p.elements, internalPropertyName)
      \* the Property is allocated first when it is new, the accessor's prototype after it
      p0 == IF existing # Null THEN p
            ELSE Allocate(p, Property(propertyName, internalPropertyName, classPrototype))
      propertyElement == IF existing # Null THEN existing ELSE NextRef(p)
      name == (IF isGetter THEN GETTER_PREFIX ELSE SETTER_PREFIX) \o propertyName
      ref == NextRef(p0)
      internalStaticName == p.entities[classPrototype].internalName \o STATIC_DELIMITER \o name
      internalInstanceName == p.entities[classPrototype].internalName \o INSTANCE_DELIMITER \o name
      WithAccessor(q) ==
        IF isGetter THEN [q EXCEPT !.entities[propertyElement].getterPrototype = ref]
        ELSE [q EXCEPT !.entities[propertyElement].setterPrototype = ref]
  IN IF /\ existing # Null
        /\ \/ p.entities[existing].kind # "PROPERTY"
           \/ (IF isGetter THEN p.entities[existing].getterPrototype ELSE p.entities[existing].setterPrototype) # Null
     THEN error(p, Duplicate_identifier_0, <<internalPropertyName>>)
     ELSE IF hasModifier("STATIC", declaration.modifiers)
     THEN IF Has(p.elements, internalStaticName)
          THEN error(p, Duplicate_identifier_0, <<internalStaticName>>)
          ELSE LET p1 == Allocate(p0, FunctionPrototype(name, internalStaticName, declaration, Null))
                   p2 == SetMember(WithAccessor(p1), classPrototype, propertyName, propertyElement)
               IN [p2 EXCEPT !.elements = Put(@, internalPropertyName, propertyElement)]
     ELSE IF Has(p.entities[classPrototype].instanceMembers, name)
          THEN error(p, Duplicate_identifier_0, <<internalPropertyName>>)
          ELSE LET p1 == Allocate(p0, FunctionPrototype(name, internalInstanceName, declaration, classPrototype))
               IN SetInstanceMember(WithAccessor(p1), classPrototype, name, propertyElement)

initializeMethodLinked(p, declaration, classPrototype) ==
  LET isGetter == hasModifier("GET", declaration.modifiers)
      name == declaration.name
      internalName == declaration.internalName
      ref == NextRef(p)
  IN IF isGetter \/ hasModifier("SET", declaration.modifiers)
     THEN initializeAccessor(p, declaration, classPrototype, isGetter)
     ELSE IF hasModifier("STATIC", declaration.modifiers)
     THEN IF Has(p.elements, internalName)
          THEN error(p, Duplicate_identifier_0, <<internalName>>)
          ELSE IF Has(p.entities[classPrototype].members, name)
          THEN error(p, Duplicate_identifier_0, <<internalName>>)
          ELSE LET p1 == Allocate(p, FunctionPrototype(name, internalName, declaration, classPrototype))
                   p2 == SetMember(p1, classPrototype, name, ref)
               IN [p2 EXCEPT !.elements = Put(@, internalName, ref)]
     ELSE IF Has(p.entities[classPrototype].instanceMembers, name)
          THEN error(p, Duplicate_identifier_0, <<internalName>>)
          ELSE SetInstanceMember(Allocate(p, FunctionPrototype(name, internalName, declaration, classPrototype)),
                                 classPrototype, name, ref)

initializeMethod(p, declaration, classPrototype) ==
  LET isGetter == hasModifier("GET", declaration.modifiers)
      name == declaration.name
      internalName == declaration.internalName
      ref == NextRef(p)
  IN IF isGetter \/ hasModifier("SET", declaration.modifiers)
     THEN initializeAccessor(p, declaration, classPrototype, isGetter)
     ELSE IF hasModifier("STATIC", declaration.modifiers)
     THEN IF Has(p.elements, internalName)
          THEN error(p, Duplicate_identifier_0, <<internalName>>)
          ELSE IF Has(p.entities[classPrototype].members, name)
          THEN error(p, Duplicate_identifier_0, <<internalName>>)
          ELSE LET p1 == Allocate(p, FunctionPrototype(name, internalName, declaration, Null))
                   p2 == SetMember(p1, classPrototype, name, ref)
               IN [p2 EXCEPT !.elements = Put(@, internalName, ref)]
     ELSE IF Has(p.entities[classPrototype].instanceMembers, name)
          THEN error(p, Duplicate_identifier_0, <<internalName>>)
          ELSE SetInstanceMember(Allocate(p, FunctionPrototype(name, internalName, declaration, classPrototype)),
                                 classPrototype, name, ref)

\* the member loop of initializeClass and initializeInterface
RECURSIVE initializeClassMembers(_, _, _, _)
initializeClassMembers(p, memberDeclarations, i, prototype) ==
  IF i > Len(memberDeclarations) THEN p
  ELSE initializeClassMembers(
         IF memberDeclarations[i].kind = "FIELD" THEN initializeField(p, memberDeclarations[i], prototype)
         ELSE initializeMethod(p, memberDeclarations[i], prototype),
         memberDeclarations, i + 1, prototype)

initializeClass(p, declaration, namespace) ==
  LET internalName == declaration.internalName
      ref == NextRef(p)
      prototype == [ClassPrototype("CLASS_PROTOTYPE", declaration.name, internalName, declaration)
                      EXCEPT !.namespace = namespace]
      p1 == [Allocate(p, prototype) EXCEPT !.elements = Put(@, internalName, ref)]
      p2 == GlobalAlias(p1, declaration, ref)
  IN IF Has(p.elements, internalName)
     THEN error(p, Duplicate_identifier_0, <<internalName>>)
     ELSE IF namespace # Null
     THEN IF Has(p2.entities[namespace].members, declaration.name)
          THEN error(p2, Duplicate_identifier_0, <<internalName>>)
          ELSE initializeClassMembers(SetMember(p2, namespace, declaration.name, ref), declaration.members, 1, ref)
     ELSE IF isExported(prototype)
     THEN IF Has(p2.exports, internalName)
          THEN error(p2, Export_declaration_conflicts_with_exported_declaration_of_0, <<internalName>>)
          ELSE initializeClassMembers([p2 EXCEPT !.exports = Put(@, internalName, ref)], declaration.members, 1, ref)
     ELSE initializeClassMembers(p2, declaration.members, 1, ref)

initializeInterface(p, declaration, namespace) ==
  LET internalName == declaration.internalName
      ref == NextRef(p)
      prototype == [ClassPrototype("INTERFACE_PROTOTYPE", declaration.name, internalName, declaration)
                      EXCEPT !.namespace = namespace]
      p1 == [Allocate(p, prototype) EXCEPT !.elements = Put(@, internalName, ref)]
  IN IF Has(p.elements, internalName)
     THEN error(p, Duplicate_identifier_0, <<internalName>>)
     ELSE IF namespace # Null
     THEN IF Has(p1.entities[namespace].members, prototype.internalName)
          THEN error(p1, Duplicate_identifier_0, <<internalName>>)
          ELSE initializeClassMembers(SetMember(p1, namespace, prototype.internalName, ref), declaration.members, 1, ref)
     ELSE IF isExported(prototype)
     THEN IF Has(p1.exports, internalName)
          THEN error(p1, Export_declaration_conflicts_with_exported_declaration_of_0, <<internalName>>)
          ELSE initializeClassMembers([p1 EXCEPT !.exports = Put(@, internalName, ref)], declaration.members, 1, ref)
     ELSE initializeClassMembers(p1, declaration.members, 1, ref)

initializeEnumValue(p, declaration, enm) ==
  IF Has(p.entities[enm].members, declaration.name)
  THEN error(p, Duplicate_identifier_0, <<declaration.internalName>>)
  ELSE SetMember(Allocate(p, EnumValue(enm, declaration.name, declaration.internalName, declaration)),
                 enm, declaration.name, NextRef(p))

RECURSIVE initializeEnumValues(_, _, _, _)
initializeEnumValues(p, values, i, enm) ==
  IF i > Len(values) THEN p
  ELSE initializeEnumValues(initializeEnumValue(p, values[i], enm), values, i + 1, enm)

\* initializeEnum with the elements.has(internalName) test of lines 432-435 left
\* out: a second declaration of the name replaces the first silently.
initializeEnumUnchecked(p, declaration, namespace) ==
  LET internalName == declaration.internalName
      ref == NextRef(p)
      enm == [Enum(declaration.name, internalName, declaration) EXCEPT !.namespace = namespace]
      p1 == [Allocate(p, enm) EXCEPT !.elements = Put(@, internalName, ref)]
  IN IF namespace # Null
     THEN IF Has(p1.entities[namespace].members, declaration.name)
          THEN error(p1, Duplicate_identifier_0, <<internalName>>)
          ELSE initializeEnumValues(SetMember(p1, namespace, declaration.name, ref), declaration.values, 1, ref)
     ELSE IF isExported(enm)
     THEN IF Has(p1.exports, internalName)
          THEN error(p1, Export_declaration_conflicts_with_exported_declaration_of_0, <<internalName>>)
          ELSE initializeEnumValues([p1 EXCEPT !.exports = Put(@, internalName, ref)], declaration.values, 1, ref)
     ELSE initializeEnumValues(p1, declaration.values, 1, ref)

initializeEnum(p, declaration, namespace) ==
  LET internalName == declaration.internalName
      ref == NextRef(p)
      enm == [Enum(declaration.name, internalName, declaration) EXCEPT !.namespace = namespace]
      p1 == [Allocate(p, enm) EXCEPT !.elements = Put(@, internalName, ref)]
  IN IF Has(p.elements, internalName)
     THEN error(p, Duplicate_identifier_0, <<internalName>>)
     ELSE IF namespace # Null
     THEN IF Has(p1.entities[namespace].members, declaration.name)
          THEN error(p1, Duplicate_identifier_0, <<internalName>>)
          ELSE initializeEnumValues(SetMember(p1, namespace, declaration.name, ref), declaration.values, 1, ref)
     ELSE IF isExported(enm)
     THEN IF Has(p1.exports, internalName)
          THEN error(p1, Export_declaration_conflicts_with_exported_declaration_of_0, <<internalName>>)
          ELSE initializeEnumValues([p1 EXCEPT !.exports = Put(@, internalName, ref)], declaration.values, 1, ref)
     ELSE initializeEnumValues(p1, declaration.values, 1, ref)

\* initializeFunction, were the alias and the export tested before the prototype is
\* entered in elements
initializeFunctionTestingFirst(p, declaration, namespace) ==
  LET internalName == declaration.internalName
      ref == NextRef(p)
      prototype == [FunctionPrototype(declaration.name, internalName, declaration, Null)
                      EXCEPT !.namespace = namespace]
      p1 == [Allocate(p, prototype) EXCEPT !.elements = Put(@, internalName, ref)]
      p2 == GlobalAlias(p1, declaration, ref)
  IN IF Has(p.elements, internalName)
     THEN error(p, Duplicate_identifier_0, <<internalName>>)
     ELSE IF hasDecorator("global", declaration.decorators) /\ Has(p.elements, declaration.name)
     THEN error(p, Duplicate_identifier_0, <<internalName>>)
     ELSE IF namespace # Null
     THEN IF Has(p.entities[namespace].members, declaration.name)
          THEN error(p, Duplicate_identifier_0, <<internalName>>)
          ELSE SetMember(p2, namespace, declaration.name, ref)
     ELSE IF isExported(prototype)
     THEN IF Has(p.exports, internalName)
          THEN error(p, Export_declaration_conflicts_with_exported_declaration_of_0, <<internalName>>)
          ELSE [p2 EXCEPT !.exports = Put(@, internalName, ref)]
     ELSE p2

initializeFunction(p, declaration, namespace) ==
  LET internalName == declaration.internalName
      ref == NextRef(p)
      prototype == [FunctionPrototype(declaration.name, internalName, declaration, Null)
                      EXCEPT !.namespace = namespace]
      p1 == [Allocate(p, prototype) EXCEPT !.elements = Put(@, internalName, ref)]
      p2 == GlobalAlias(p1, declaration, ref)
  IN IF Has(p.elements, internalName)
     THEN error(p, Duplicate_identifier_0, <<internalName>>)
     ELSE IF namespace # Null
     THEN IF Has(p2.entities[namespace].members, declaration.name)
          THEN error(p2, Duplicate_identifier_0, <<internalName>>)
          ELSE SetMember(p2, namespace, declaration.name, ref)
     ELSE IF isExported(prototype)
     THEN IF Has(p2.exports, internalName)
          THEN error(p2, Export_declaration_conflicts_with_exported_declaration_of_0, <<internalName>>)
          ELSE [p2 EXCEPT !.exports = Put(@, internalName, ref)]
     ELSE p2

\* initializeType, were a redeclared alias bound to its latest declaration
initializeTypeRebinding(p, declaration, namespace) ==
  IF Has(p.types, declaration.name)
  THEN error(p, Duplicate_identifier_0, <<declaration.name>>)
  ELSE IF Has(p.typeAliases, declaration.name)
  THEN [error(p, Duplicate_identifier_0, <<declaration.name>>)
          EXCEPT !.typeAliases = Put(@, declaration.name, declaration.alias)]
  ELSE [p EXCEPT !.typeAliases = Put(@, declaration.name, declaration.alias)]

initializeType(p, declaration, namespace) ==
  IF Has(p.types, declaration.name) \/ Has(p.typeAliases, declaration.name)
  THEN error(p, Duplicate_identifier_0, <<declaration.name>>)
  ELSE [p EXCEPT !.typeAliases = Put(@, declaration.name, declaration.alias)]

\* one iteration of the loop of initializeVariables
initializeVariable(p, declaration, namespace) ==
  LET internalName == declaration.internalName
      ref == NextRef(p)
      global == [Global(declaration.name, internalName, declaration) EXCEPT !.namespace = namespace]
      p1 == [Allocate(p, global) EXCEPT !.elements = Put(@, internalName, ref)]
      p2 == GlobalAlias(p1, declaration, ref)
  IN IF Has(p.elements, internalName)
     THEN error(p, Duplicate_identifier_0, <<internalName>>)
     ELSE IF namespace # Null
     THEN IF Has(p2.entities[namespace].members, declaration.name)
          THEN error(p2, Duplicate_identifier_0, <<internalName>>)
          ELSE SetMember(p2, namespace, declaration.name, ref)
     ELSE IF isExported(global)
     THEN IF Has(p2.exports, internalName)
          THEN error(p2, Duplicate_identifier_0, <<internalName>>)
          ELSE [p2 EXCEPT !.exports = Put(@, internalName, ref)]
     ELSE p2

RECURSIVE initializeVariablesFrom(_, _, _, _)
initializeVariablesFrom(p, declarations, i, namespace) ==
  IF i > Len(declarations) THEN p
  ELSE initializeVariablesFrom(initializeVariable(p, declarations[i], namespace), declarations, i + 1, namespace)

initializeVariables(p, statement, namespace) == initializeVariablesFrom(p, statement.declarations, 1, namespace)

RECURSIVE initializeNamespace(_, _, _)
RECURSIVE initializeNamespaceMembers(_, _, _, _)
initializeNamespaceMembers(p, members, i, namespace) ==
  IF i > Len(members) THEN p
  ELSE LET m == members[i]
           q == CASE m.kind = "CLASS" -> initializeClass(p, m, namespace)
                  [] m.kind = "ENUM" -> initializeEnum(p, m, namespace)
                  [] m.kind = "FUNCTION" -> initializeFunction(p, m, namespace)
                  [] m.kind = "INTERFACE" -> initializeInterface(p, m, namespace)
                  [] m.kind = "NAMESPACE" -> initializeNamespace(p, m, namespace)
                  [] m.kind = "TYPEDECLARATION" -> initializeType(p, m, namespace)
                  [] m.kind = "VARIABLE" -> initializeVariables(p, m, namespace)
       IN initializeNamespaceMembers(q, members, i + 1, namespace)

initializeNamespace(p, declaration, parentNamespace) ==
  LET internalName == declaration.internalName
      existing == Get(p.elements, internalName)
      namespace == IF existing # Null THEN existing ELSE NextRef(p)
      p1 == IF existing # Null THEN p
            ELSE [Allocate(p, [Namespace(declaration.name, internalName, declaration)
                                 EXCEPT !.namespace = parentNamespace])
                    EXCEPT !.elements = Put(@, internalName, namespace)]
  IN IF parentNamespace # Null
     THEN IF Has(p1.entities[parentNamespace].members, declaration.name)
          THEN error(p1, Duplicate_identifier_0, <<internalName>>)
          ELSE initializeNamespaceMembers(SetMember(p1, parentNamespace, declaration.name, namespace),
                                          declaration.members, 1, namespace)
     ELSE IF isExported(p1.entities[namespace])
     THEN IF Has(p1.exports, internalName)
          THEN error(p1, Export_declaration_conflicts_with_exported_declaration_of_0, <<internalName>>)
          ELSE initializeNamespaceMembers([p1 EXCEPT !.exports = Put(@, internalName, namespace)],
                                          declaration.members, 1, namespace)
     ELSE initializeNamespaceMembers(p1, declaration.members, 1, namespace)

(***************************************************************************)
(* Exports and imports at bind time.                                       *)
(***************************************************************************)
\* the walk below, were it left only at the second return to a queued export
RECURSIVE walkQueuedExportsTwice(_, _, _)
walkQueuedExportsTwice(p, referencedName, seen) ==
  LET i == QueuedIndex(p.queuedExports, referencedName)
      queuedExport == p.queuedExports[i]
  IN IF i = 0
     THEN [found |-> FALSE, fromExports |-> FALSE, referencedName |-> referencedName, steps |-> 1]
     ELSE IF queuedExport.isReExport
     THEN IF Has(p.exports, queuedExport.referencedName)
          THEN [found |-> TRUE, fromExports |-> TRUE, referencedName |-> referencedName, steps |-> 1]
          ELSE IF (queuedExport.name \o "'") \in seen
          THEN [found |-> FALSE, fromExports |-> FALSE, referencedName |-> queuedExport.referencedName,
                steps |-> 1]
          ELSE [walkQueuedExportsTwice(p, queuedExport.referencedName,
                                       seen \cup {IF queuedExport.name \in seen
                                                  THEN queuedExport.name \o "'" ELSE queuedExport.name})
                  EXCEPT !.steps = @ + 1]
     ELSE IF Has(p.elements, queuedExport.referencedName)
          THEN [found |-> TRUE, fromExports |-> FALSE, referencedName |-> referencedName, steps |-> 1]
          ELSE [found |-> FALSE, fromExports |-> FALSE, referencedName |-> referencedName, steps |-> 1]

\* The walk over the already known queued exports, as written in initializeExport
\* and again in initializeImport.  It ends with found = TRUE at the place where
\* the code binds and returns (fromExports tells which map the code then reads,
\* under the key referencedName), or with found = FALSE where the loop is left;
\* steps counts the evaluations of the loop condition.
RECURSIVE walkQueuedExports(_, _, _)
walkQueuedExports(p, referencedName, seen) ==
  LET i == QueuedIndex(p.queuedExports, referencedName)
      queuedExport == p.queuedExports[i]
  IN IF i = 0
     THEN [found |-> FALSE, fromExports |-> FALSE, referencedName |-> referencedName, steps |-> 1]
     ELSE IF queuedExport.isReExport
     THEN IF Has(p.exports, queuedExport.referencedName)
          THEN [found |-> TRUE, fromExports |-> TRUE, referencedName |-> referencedName, steps |-> 1]
          ELSE IF queuedExport.name \in seen
          THEN [found |-> FALSE, fromExports |-> FALSE, referencedName |-> queuedExport.referencedName,
                steps |-> 1]
          ELSE [walkQueuedExports(p, queuedExport.referencedName, seen \cup {queuedExport.name})
                  EXCEPT !.steps = @ + 1]
     ELSE IF Has(p.elements, queuedExport.referencedName)
          THEN [found |-> TRUE, fromExports |-> FALSE, referencedName |-> referencedName, steps |-> 1]
          ELSE [found |-> FALSE, fromExports |-> FALSE, referencedName |-> referencedName, steps |-> 1]

\* what the code binds once the walk has found something: the map is read under
\* the walk's current referencedName
walkBinding(p, walk) ==
  IF walk.fromExports THEN Get(p.exports, walk.referencedName) ELSE Get(p.elements, walk.referencedName)

initializeExport(p, member, internalPath) ==
  LET externalName == member.source \o PATH_DELIMITER \o member.externalIdentifier
      localName == member.source \o PATH_DELIMITER \o member.identifier
      externalReference == internalPath \o PATH_DELIMITER \o member.identifier
      walk == walkQueuedExports(p, externalReference, {})
  IN IF Has(p.exports, externalName)
     THEN error(p, Export_declaration_conflicts_with_exported_declaration_of_0, <<externalName>>)
     ELSE IF internalPath = NoPath
     THEN IF Has(p.elements, localName)
          THEN [p EXCEPT !.exports = Put(@, externalName, Get(p.elements, localName))]
          ELSE IF QueuedHas(p.queuedExports, externalName)
          THEN error(p, Export_declaration_conflicts_with_exported_declaration_of_0, <<externalName>>)
          ELSE [p EXCEPT !.queuedExports = Append(@, QueuedExport(externalName, FALSE, localName, member))]
     ELSE IF Has(p.exports, externalReference)
          THEN [p EXCEPT !.exports = Put(@, externalName, Get(p.exports, externalReference))]
          ELSE IF walk.found
          THEN [p EXCEPT !.exports = Put(@, externalName, walkBinding(p, walk))]
          ELSE IF QueuedHas(p.queuedExports, externalName)
          THEN error(p, Export_declaration_conflicts_with_exported_declaration_of_0, <<externalName>>)
          ELSE [p EXCEPT !.queuedExports = Append(@, QueuedExport(externalName, TRUE, walk.referencedName, member))]

RECURSIVE initializeExportsFrom(_, _, _)
initializeExportsFrom(p, statement, i) ==
  IF i > Len(statement.members) THEN p
  ELSE initializeExportsFrom(initializeExport(p, statement.members[i], statement.internalPath), statement, i + 1)

initializeExports(p, statement) == initializeExportsFrom(p, statement, 1)

initializeImport(p, declaration, internalPath) ==
  LET internalName == declaration.internalName
      referencedName == internalPath \o PATH_DELIMITER \o declaration.externalIdentifier
      walk == walkQueuedExports(p, referencedName, {})
  IN IF Has(p.elements, internalName)
     THEN error(p, Duplicate_identifier_0, <<internalName>>)
     ELSE IF Has(p.exports, referencedName)
     THEN [p EXCEPT !.elements = Put(@, internalName, Get(p.exports, referencedName))]
     ELSE IF walk.found
     THEN [p EXCEPT !.elements = Put(@, internalName, walkBinding(p, walk))]
     ELSE [p EXCEPT !.queuedImports = Append(@, QueuedImport(internalName, walk.referencedName, declaration))]

RECURSIVE initializeImportsFrom(_, _, _)
initializeImportsFrom(p, statement, i) ==
  IF i > Len(statement.declarations) THEN p
  ELSE initializeImportsFrom(initializeImport(p, statement.declarations[i], statement.internalPath), statement, i + 1)

initializeImports(p, statement) ==
  LET internalName == statement.source \o "/" \o statement.namespaceName
  IN IF Len(statement.declarations) # 0
     THEN initializeImportsFrom(p, statement, 1)
     ELSE IF Has(p.elements, internalName)
     THEN error(p, Duplicate_identifier_0, <<internalName>>)
     ELSE error(p, Operation_not_supported, <<>>)

(***************************************************************************)
(* Types and the resolver.  A Type is modelled by its name; NoType is the  *)
(* null Type.  A nullable array or map is None or Some(value).             *)
(***************************************************************************)
NoType == ""
None == <<>>
Some(value) == <<value>>

GetType(m, k) == IF k \in DOMAIN m THEN m[k] ELSE NoType

RECURSIVE join(_, _)
join(types, separator) ==
  IF Len(types) = 0 THEN ""
  ELSE IF Len(types) = 1 THEN types[1]
  ELSE types[1] \o separator \o join(Tail(types), separator)

typesToString(types, prefix, postfix) ==
  IF Len(types) = 0 THEN "" ELSE prefix \o join(types, ",") \o postfix

IdentifierExpression(source, name) == [kind |-> "IDENTIFIER", name |-> name, source |-> source]

\* expression.property; an identifier expression has no property attribute
PropertyAccessExpression(expression, property) ==
  [kind |-> "PROPERTYACCESS", expression |-> expression, property |-> property]

\* resolveType returns [program, type]; type = NoType stands for null
RECURSIVE resolveType(_, _, _, _)
RECURSIVE resolveTypeNodes(_, _, _, _, _, _)
\* the loop over node.typeArguments, from the result of resolving typeArguments[i] on:
\* types = None when one of them does not resolve
resolveTypeNodesFrom(paramType, nodes, i, contextualTypeArguments, reportNotFound, paramTypes) ==
  IF paramType.type = NoType
  THEN [program |-> paramType.program, types |-> None]
  ELSE resolveTypeNodes(paramType.program, nodes, i + 1, contextualTypeArguments, reportNotFound,
                        Append(paramTypes, paramType.type))

resolveTypeNodes(p, nodes, i, contextualTypeArguments, reportNotFound, paramTypes) ==
  IF i > Len(nodes) THEN [program |-> p, types |-> Some(paramTypes)]
  ELSE resolveTypeNodesFrom(resolveType(p, nodes[i], contextualTypeArguments, reportNotFound),
                            nodes, i, contextualTypeArguments, reportNotFound, paramTypes)

\* the end of resolveType, once the alias (if there is one) has been resolved
resolveTypeAlias(alias, globalName, reportNotFound) ==
  IF alias.type # NoType THEN alias
  ELSE [program |-> IF reportNotFound THEN error(alias.program, Cannot_find_name_0, <<globalName>>)
                    ELSE alias.program,
        type |-> NoType]

\* resolveTypeNamed, were the alias resolved under the caller's contextual type arguments
resolveTypeNamedInContext(paramTypes, node, contextualTypeArguments, reportNotFound) ==
  LET k == Len(node.typeArguments)
      p == paramTypes.program
      globalName == IF k # 0 THEN node.identifier \o typesToString(paramTypes.types[1], "<", ">")
                    ELSE node.identifier
      placeholderType == IF k = 0 /\ contextualTypeArguments # None
                         THEN GetType(contextualTypeArguments[1], globalName)
                         ELSE NoType
  IN IF paramTypes.types = None THEN [program |-> p, type |-> NoType]
     ELSE IF placeholderType # NoType THEN [program |-> p, type |-> placeholderType]
     ELSE IF GetType(p.types, node.source \o PATH_DELIMITER \o globalName) # NoType
     THEN [program |-> p, type |-> GetType(p.types, node.source \o PATH_DELIMITER \o globalName)]
     ELSE IF GetType(p.types, globalName) # NoType
     THEN [program |-> p, type |-> GetType(p.types, globalName)]
     ELSE resolveTypeAlias(IF Has(p.typeAliases, globalName)
                           THEN resolveType(p, p.typeAliases[globalName], contextualTypeArguments, reportNotFound)
                           ELSE [program |-> p, type |-> NoType],
                           globalName, reportNotFound)

\* resolveType once the type arguments of the node have been resolved
resolveTypeNamed(paramTypes, node, contextualTypeArguments, reportNotFound) ==
  LET k == Len(node.typeArguments)
      p == paramTypes.program
      globalName == IF k # 0 THEN node.identifier \o typesToString(paramTypes.types[1], "<", ">")
                    ELSE node.identifier
      placeholderType == IF k = 0 /\ contextualTypeArguments # None
                         THEN GetType(contextualTypeArguments[1], globalName)
                         ELSE NoType
  IN IF paramTypes.types = None THEN [program |-> p, type |-> NoType]
     ELSE IF placeholderType # NoType THEN [program |-> p, type |-> placeholderType]
     ELSE IF GetType(p.types, node.source \o PATH_DELIMITER \o globalName) # NoType
     THEN [program |-> p, type |-> GetType(p.types, node.source \o PATH_DELIMITER \o globalName)]
     ELSE IF GetType(p.types, globalName) # NoType
     THEN [program |-> p, type |-> GetType(p.types, globalName)]
     ELSE resolveTypeAlias(IF Has(p.typeAliases, globalName)
                           THEN resolveType(p, p.typeAliases[globalName], None, reportNotFound)
                           ELSE [program |-> p, type |-> NoType],
                           globalName, reportNotFound)

resolveType(p, node, contextualTypeArguments, reportNotFound) ==
  resolveTypeNamed(resolveTypeNodes(p, node.typeArguments, 1, contextualTypeArguments, reportNotFound, <<>>),
                   node, contextualTypeArguments, reportNotFound)

\* whether the recursion of resolveType(node, contextualTypeArguments) comes back to
\* an alias it is already resolving (`visited`): the recursive calls are those for the
\* type arguments, left at the first that does not resolve, and the one for the alias,
\* made without contextual type arguments when neither a placeholder nor types has
\* the name.  Nothing the calls read changes in between, so a call that comes back
\* recurses without end.
RECURSIVE resolveTypeReenters(_, _, _, _)
resolveTypeReenters(p, node, contextualTypeArguments, visited) ==
  LET k == Len(node.typeArguments)
      reentering == {i \in 1..k : resolveTypeReenters(p, node.typeArguments[i], contextualTypeArguments, visited)}
      first == IF reentering = {} THEN k + 1 ELSE CHOOSE i \in reentering : \A j \in reentering : i <= j
      paramTypes == [i \in 1..(first - 1) |-> resolveType(p, node.typeArguments[i], contextualTypeArguments, FALSE).type]
      globalName == IF k # 0 THEN node.identifier \o typesToString(paramTypes, "<", ">") ELSE node.identifier
  IN IF \E i \in 1..(first - 1) : paramTypes[i] = NoType THEN FALSE
     ELSE IF first <= k THEN TRUE
     ELSE IF k = 0 /\ contextualTypeArguments # None /\ GetType(contextualTypeArguments[1], globalName) # NoType
     THEN FALSE
     ELSE IF GetType(p.types, node.source \o PATH_DELIMITER \o globalName) # NoType THEN FALSE
     ELSE IF GetType(p.types, globalName) # NoType THEN FALSE
     ELSE IF ~Has(p.typeAliases, globalName) THEN FALSE
     ELSE \/ p.typeAliases[globalName] \in visited
          \/ resolveTypeReenters(p, p.typeAliases[globalName], None, visited \cup {p.typeAliases[globalName]})

\* NativeType: the four that bucket the temporary locals; tempI32s, tempI64s,
\* tempF32s and tempF64s are temps["I32"], ..., temps["F64"]
NativeTypes == {"I32", "I64", "F32", "F64"}

\* Type.toNativeType(); "None" stands for the native type of void
toNativeType(type) ==
  CASE type \in {"i8", "i16", "i32", "u8", "u16", "u32", "bool", "isize32", "usize32"} -> "I32"
    [] type \in {"i64", "u64", "isize64", "usize64"} -> "I64"
    [] type = "f32" -> "F32"
    [] type = "f64" -> "F64"
    [] OTHER -> "None"

Local(simpleName, index, type) ==
  Element("LOCAL", simpleName, simpleName, {}, NoNode) @@ [index |-> index, type |-> type]

Parameter(name, type) == [name |-> name, type |-> type]

\* new Function(...): [program, outcome, result].  The Function is allocated first,
\* its locals after it in index order; a failed assert leaves outcome = "threw".
Function(p, prototype, internalName, typeArguments, parameters, returnType, instanceMethodOf) ==
  LET ref == NextRef(p)
      flags == p.entities[prototype].flags
      this == IF instanceMethodOf # Null
              THEN <<Parameter("this", p.entities[instanceMethodOf].type)>>
              ELSE <<>>
      named == this \o parameters
      locals == [n \in {named[i].name : i \in 1..Len(named)} |->
                   ref + (CHOOSE i \in 1..Len(named) :
                            named[i].name = n /\ \A j \in 1..Len(named) : named[j].name = n => j <= i)]
      contextualTypeArguments ==
        IF instanceMethodOf # Null THEN p.entities[instanceMethodOf].contextualTypeArguments ELSE None
      function ==
        Element("FUNCTION", p.entities[prototype].simpleName, internalName, flags, NoNode)
          @@ [prototype |-> prototype, typeArguments |-> typeArguments, parameters |-> parameters,
              returnType |-> returnType, instanceMethodOf |-> instanceMethodOf, locals |-> locals,
              contextualTypeArguments |-> contextualTypeArguments,
              additionalLocals |-> <<>>, breakContext |-> None, nextBreakId |-> 0, breakStack |-> None,
              temps |-> [t \in NativeTypes |-> None]]
  IN IF (instanceMethodOf # Null) # ("INSTANCE" \in flags)
     THEN [program |-> p, outcome |-> "threw", result |-> Null]
     ELSE [program |-> [p EXCEPT !.entities =
                          (@ \o <<function>>) \o [i \in 1..Len(named) |-> Local(named[i].name, i - 1, named[i].type)]],
           outcome |-> "returned", result |-> ref]

\* addLocal, were `this` not counted in the index
addLocalUncounted(p, function, type, name) ==
  LET this == p.entities[function]
      localIndex == Len(this.parameters) + Len(this.additionalLocals)
      local == Local(IF name # "" THEN name ELSE "anonymous$" \o ToString(localIndex), localIndex, type)
      ref == NextRef(p)
  IN IF name # "" /\ Has(this.locals, name)
     THEN [program |-> p, outcome |-> "threw", result |-> Null]
     ELSE [program |-> [Allocate(p, local) EXCEPT
                          !.entities[function].locals = IF name # "" THEN Put(@, name, ref) ELSE @,
                          !.entities[function].additionalLocals = Append(@, type)],
           outcome |-> "returned", result |-> ref]

\* function.addLocal(type, name): [program, outcome, result]; name = "" stands for null
addLocal(p, function, type, name) ==
  LET this == p.entities[function]
      localIndex == Len(this.parameters) + Len(this.additionalLocals)
                      + (IF "INSTANCE" \in this.flags THEN 1 ELSE 0)
      local == Local(IF name # "" THEN name ELSE "anonymous$" \o ToString(localIndex), localIndex, type)
      ref == NextRef(p)
  IN IF name # "" /\ Has(this.locals, name)
     THEN [program |-> p, outcome |-> "threw", result |-> Null]
     ELSE [program |-> [Allocate(p, local) EXCEPT
                          !.entities[function].locals = IF name # "" THEN Put(@, name, ref) ELSE @,
                          !.entities[function].additionalLocals = Append(@, type)],
           outcome |-> "returned", result |-> ref]

\* FunctionPrototype.resolve: instanceKey
instanceKey(typeArguments) == IF typeArguments # None THEN typesToString(typeArguments[1], "", "") ELSE ""

\* FunctionPrototype.resolve, the parameter loop: parameters = None when one does not resolve
RECURSIVE resolveParameters(_, _, _, _, _)
resolveParametersFrom(parameterType, declaration, i, contextualTypeArguments, parameters) ==
  IF parameterType.type = NoType
  THEN [program |-> parameterType.program, parameters |-> None]
  ELSE resolveParameters(parameterType.program, declaration, i + 1, contextualTypeArguments,
                         Append(parameters, Parameter(declaration.parameters[i].name, parameterType.type)))

resolveParameters(p, declaration, i, contextualTypeArguments, parameters) ==
  IF i > Len(declaration.parameters) THEN [program |-> p, parameters |-> Some(parameters)]
  ELSE IF declaration.parameters[i].type = NoNode THEN [program |-> p, parameters |-> None]
  ELSE resolveParametersFrom(resolveType(p, declaration.parameters[i].type, contextualTypeArguments, TRUE),
                             declaration, i, contextualTypeArguments, parameters)

\* FunctionPrototype.resolve, the end: the new Function is entered in instances
cacheInstance(p, instance, prototype, typeArguments) ==
  IF instance.outcome = "threw"
  THEN [program |-> p, outcome |-> "threw", result |-> Null]
  ELSE [program |-> [instance.program EXCEPT
                       !.entities[prototype].instances = Put(@, instanceKey(typeArguments), instance.result)],
        outcome |-> "returned", result |-> instance.result]

\* FunctionPrototype.resolve once the return type has been resolved
instantiateReturning(returnType, parameters, prototype, typeArguments) ==
  LET p == returnType.program
      internalName == IF Len(instanceKey(typeArguments)) # 0
                      THEN p.entities[prototype].internalName \o "<" \o instanceKey(typeArguments) \o ">"
                      ELSE p.entities[prototype].internalName
  IN IF returnType.type = NoType
     THEN [program |-> p, outcome |-> "returned", result |-> Null]
     ELSE cacheInstance(p, Function(p, prototype, internalName, typeArguments, parameters, returnType.type, Null),
                        prototype, typeArguments)

\* FunctionPrototype.resolve once the parameters have been resolved
instantiateWith(parameters, prototype, typeArguments, contextualTypeArguments) ==
  LET p == parameters.program
      declaration == p.entities[prototype].declaration
  IN IF parameters.parameters = None
     THEN [program |-> p, outcome |-> "returned", result |-> Null]
     ELSE instantiateReturning(
            IF "SETTER" \in p.entities[prototype].flags THEN [program |-> p, type |-> "void"]
            ELSE IF declaration.returnType = NoNode THEN [program |-> p, type |-> NoType]
            ELSE resolveType(p, declaration.returnType, contextualTypeArguments, TRUE),
            parameters.parameters[1], prototype, typeArguments)

\* instantiate, were the signature resolved under the inherited mapping alone
instantiateInherited(p, prototype, typeArguments, inheritedTypeArguments) ==
  LET declaration == p.entities[prototype].declaration
      k == IF typeArguments # None THEN Len(typeArguments[1]) ELSE 0
  IN IF declaration = NoNode \/ k > Len(declaration.typeParameters)
     THEN [program |-> p, outcome |-> "threw", result |-> Null]
     ELSE instantiateWith(resolveParameters(p, declaration, 1, inheritedTypeArguments, <<>>),
                          prototype, typeArguments, inheritedTypeArguments)

\* FunctionPrototype.resolve after the lookup in instances: [program, outcome, result]
instantiate(p, prototype, typeArguments, inheritedTypeArguments) ==
  LET declaration == p.entities[prototype].declaration
      k == IF typeArguments # None THEN Len(typeArguments[1]) ELSE 0
      inherited == IF inheritedTypeArguments # None THEN inheritedTypeArguments[1] ELSE EmptyMap
      own == [n \in {declaration.typeParameters[i] : i \in 1..k} |->
                typeArguments[1][CHOOSE i \in 1..k :
                                   declaration.typeParameters[i] = n
                                     /\ \A j \in 1..k : declaration.typeParameters[j] = n => j <= i]]
      contextualTypeArguments == IF k # 0 THEN Some(own @@ inherited) ELSE inheritedTypeArguments
  IN IF declaration = NoNode \/ k > Len(declaration.typeParameters)
     THEN [program |-> p, outcome |-> "threw", result |-> Null]
     ELSE instantiateWith(resolveParameters(p, declaration, 1, contextualTypeArguments, <<>>),
                          prototype, typeArguments, contextualTypeArguments)

\* resolve without the lookup in instances
FunctionPrototype_resolveUncached(p, prototype, typeArguments, contextualTypeArguments) ==
  instantiate(p, prototype, typeArguments, contextualTypeArguments)

FunctionPrototype_resolve(p, prototype, typeArguments, contextualTypeArguments) ==
  LET instance == Get(p.entities[prototype].instances, instanceKey(typeArguments))
  IN IF instance # Null
     THEN [program |-> p, outcome |-> "returned", result |-> instance]
     ELSE instantiate(p, prototype, typeArguments, contextualTypeArguments)

\* new Class(prototype, internalName, typeArguments, base): [program, outcome, result].
\* The constructor throws when the counts of type parameters and type arguments differ.
Class(p, prototype, internalName, typeArguments, base) ==
  LET declaration == p.entities[prototype].declaration
      k == Len(typeArguments)
      inherited == IF base # Null THEN p.entities[base].contextualTypeArguments ELSE None
      own == [n \in {declaration.typeParameters[i] : i \in 1..k} |->
                typeArguments[CHOOSE i \in 1..k :
                                declaration.typeParameters[i] = n
                                  /\ \A j \in 1..k : declaration.typeParameters[j] = n => j <= i]]
      class == Element("CLASS", p.entities[prototype].simpleName, internalName,
                       p.entities[prototype].flags, NoNode)
                 @@ [prototype |-> prototype, typeArguments |-> typeArguments, type |-> p.types["usize"],
                     base |-> base, contextualTypeArguments |-> inherited]
  IN IF declaration = NoNode
     THEN [program |-> Allocate(p, class), outcome |-> "returned", result |-> NextRef(p)]
     ELSE IF Len(declaration.typeParameters) # k
     THEN [program |-> p, outcome |-> "threw", result |-> Null]
     ELSE IF k # 0
     THEN [program |-> Allocate(p, [class EXCEPT !.contextualTypeArguments =
                                      Some(own @@ (IF inherited # None THEN inherited[1] ELSE EmptyMap))]),
           outcome |-> "returned", result |-> NextRef(p)]
     ELSE [program |-> Allocate(p, class), outcome |-> "returned", result |-> NextRef(p)]

\* ClassPrototype.resolve, the end: contextualTypeArguments is assigned to the new Class,
\* which is entered in instances
attachContext(p, instance, prototype, typeArguments, contextualTypeArguments) ==
  IF instance.outcome = "threw"
  THEN [program |-> p, outcome |-> "threw", result |-> Null]
  ELSE [program |-> [instance.program EXCEPT
                       !.entities[instance.result].contextualTypeArguments = contextualTypeArguments,
                       !.entities[prototype].instances = Put(@, typesToString(typeArguments, "", ""), instance.result)],
        outcome |-> "returned", result |-> instance.result]

\* ClassPrototype.resolve after the lookup in instances
instantiateClass(p, prototype, typeArguments, inheritedTypeArguments) ==
  LET declaration == p.entities[prototype].declaration
      k == Len(typeArguments)
      inherited == IF inheritedTypeArguments # None THEN inheritedTypeArguments[1] ELSE EmptyMap
      own == [n \in {declaration.typeParameters[i] : i \in 1..k} |->
                typeArguments[CHOOSE i \in 1..k :
                                declaration.typeParameters[i] = n
                                  /\ \A j \in 1..k : declaration.typeParameters[j] = n => j <= i]]
      contextualTypeArguments == IF k # 0 THEN Some(own @@ inherited) ELSE inheritedTypeArguments
      instanceMembers == p.entities[prototype].instanceMembers
      key == typesToString(typeArguments, "", "")
      internalName == IF Len(key) # 0
                      THEN p.entities[prototype].internalName \o "<" \o key \o ">"
                      ELSE p.entities[prototype].internalName
  IN IF declaration = NoNode \/ k > Len(declaration.typeParameters)
     THEN [program |-> p, outcome |-> "threw", result |-> Null]
     ELSE IF \E n \in DOMAIN instanceMembers :
               p.entities[instanceMembers[n]].kind \notin {"FIELD_PROTOTYPE", "FUNCTION_PROTOTYPE"}
     THEN [program |-> p, outcome |-> "threw", result |-> Null]
     ELSE attachContext(p, Class(p, prototype, internalName, typeArguments, Null),
                        prototype, typeArguments, contextualTypeArguments)

\* resolve attaching the contextual type arguments it was called with, not the overlaid ones
ClassPrototype_resolveInherited(p, prototype, typeArguments, contextualTypeArguments) ==
  LET instance == Get(p.entities[prototype].instances, typesToString(typeArguments, "", ""))
      resolved == instantiateClass(p, prototype, typeArguments, contextualTypeArguments)
  IN IF instance # Null
     THEN [program |-> p, outcome |-> "returned", result |-> instance]
     ELSE IF resolved.outcome = "threw" THEN resolved
     ELSE [resolved EXCEPT !.program.entities[resolved.result].contextualTypeArguments = contextualTypeArguments]

\* ClassPrototype.resolve: [program, outcome, result]
ClassPrototype_resolve(p, prototype, typeArguments, contextualTypeArguments) ==
  LET instance == Get(p.entities[prototype].instances, typesToString(typeArguments, "", ""))
  IN IF instance # Null
     THEN [program |-> p, outcome |-> "returned", result |-> instance]
     ELSE instantiateClass(p, prototype, typeArguments, contextualTypeArguments)

\* resolveTypeArguments returns [program, types]; types = None stands for null
resolveTypeArguments(p, typeParameters, typeArgumentNodes, contextualTypeArguments, alternativeReportNode) ==
  LET parameterCount == Len(typeParameters)
      argumentCount == IF typeArgumentNodes # None THEN Len(typeArgumentNodes[1]) ELSE 0
  IN IF parameterCount # argumentCount
     THEN [program |-> IF argumentCount # 0
                       THEN error(p, Expected_0_type_arguments_but_got_1,
                                  <<ToString(parameterCount), ToString(argumentCount)>>)
                       ELSE IF alternativeReportNode # NoNode
                       THEN error(p, Expected_0_type_arguments_but_got_1, <<ToString(parameterCount), "0">>)
                       ELSE p,
           types |-> None]
     ELSE IF parameterCount = 0 THEN [program |-> p, types |-> Some(<<>>)]
     ELSE resolveTypeNodes(p, typeArgumentNodes[1], 1, contextualTypeArguments, TRUE, <<>>)

\* resolveIdentifier, the do-while over the parent namespaces: the first hit, or Null
RECURSIVE resolveInNamespaces(_, _, _)
resolveInNamespaces(p, namespace, name) ==
  LET element == Get(p.elements, p.entities[namespace].internalName \o STATIC_DELIMITER \o name)
  IN IF element # Null THEN element
     ELSE IF p.entities[namespace].namespace # Null
     THEN resolveInNamespaces(p, p.entities[namespace].namespace, name)
     ELSE Null

\* resolveIdentifier searching the current file before the parent namespaces
resolveIdentifierFileFirst(p, identifier, contextualFunction) ==
  LET name == identifier.name
      local == Get(p.entities[contextualFunction].locals, name)
      namespace == p.entities[p.entities[contextualFunction].prototype].namespace
      inNamespaces == IF namespace # Null THEN resolveInNamespaces(p, namespace, name) ELSE Null
      inFile == Get(p.elements, identifier.source \o PATH_DELIMITER \o name)
  IN IF local # Null THEN [program |-> p, result |-> local]
     ELSE IF inFile # Null THEN [program |-> p, result |-> inFile]
     ELSE IF inNamespaces # Null THEN [program |-> p, result |-> inNamespaces]
     ELSE IF Get(p.elements, name) # Null THEN [program |-> p, result |-> Get(p.elements, name)]
     ELSE [program |-> error(p, Cannot_find_name_0, <<name>>), result |-> Null]

\* resolveIdentifier returns [program, result]
resolveIdentifier(p, identifier, contextualFunction) ==
  LET name == identifier.name
      local == Get(p.entities[contextualFunction].locals, name)
      namespace == p.entities[p.entities[contextualFunction].prototype].namespace
      inNamespaces == IF namespace # Null THEN resolveInNamespaces(p, namespace, name) ELSE Null
      inFile == Get(p.elements, identifier.source \o PATH_DELIMITER \o name)
  IN IF local # Null THEN [program |-> p, result |-> local]
     ELSE IF inNamespaces # Null THEN [program |-> p, result |-> inNamespaces]
     ELSE IF inFile # Null THEN [program |-> p, result |-> inFile]
     ELSE IF Get(p.elements, name) # Null THEN [program |-> p, result |-> Get(p.elements, name)]
     ELSE [program |-> error(p, Cannot_find_name_0, <<name>>), result |-> Null]

\* resolvePropertyAccess returns [program, outcome, result]; outcome = "threw"
\* when an exception leaves the call.  The diagnostic's first argument is read
\* from the receiver, `(<PropertyAccessExpression>expression).property.name`:
\* for an identifier receiver `property` is undefined and reading its name throws.
RECURSIVE resolvePropertyAccess(_, _, _)
resolvePropertyAccess(p, propertyAccess, contextualFunction) ==
  LET expression == propertyAccess.expression
      resolved == IF expression.kind = "IDENTIFIER"
                  THEN [outcome |-> "returned"] @@ resolveIdentifier(p, expression, contextualFunction)
                  ELSE resolvePropertyAccess(p, expression, contextualFunction)
      targetElement == resolved.result
      propertyName == propertyAccess.property.name
  IN IF expression.kind \notin {"IDENTIFIER", "PROPERTYACCESS"}
     THEN [program |-> p, outcome |-> "threw", result |-> Null]
     ELSE IF resolved.outcome = "threw" THEN resolved
     ELSE IF targetElement = Null THEN [program |-> resolved.program, outcome |-> "returned", result |-> Null]
     ELSE IF Get(resolved.program.entities[targetElement].members, propertyName) # Null
     THEN [program |-> resolved.program, outcome |-> "returned",
           result |-> Get(resolved.program.entities[targetElement].members, propertyName)]
     ELSE IF expression.kind = "IDENTIFIER"
     THEN [program |-> resolved.program, outcome |-> "threw", result |-> Null]
     ELSE [program |-> error(resolved.program, Property_0_does_not_exist_on_type_1,
                             <<expression.property.name, resolved.program.entities[targetElement].internalName>>),
           outcome |-> "returned", result |-> Null]

(***************************************************************************)
(* The sources the binder is run on.  All top-level names are f (so that   *)
(* declarations collide) or N; files are a, b, main.                      *)
(***************************************************************************)
\* the longest statement list of the file whose contents vary freely
MaxStatements == 2

Paths == {"a", "b", "main"}

GlobalDecorator == [kind |-> "IDENTIFIER", name |-> "global", arguments |-> 0]
ModifierChoices == {{}, {"EXPORT"}}
DecoratorChoices == {<<>>, <<GlobalDecorator>>}

FunctionStatement(path, modifiers, decorators) ==
  FunctionDeclaration(path, PATH_DELIMITER, "f", modifiers, decorators, <<>>, <<>>, TypeNode(path, "void"))

\* what links files: declarations of f, local exports, re-exports, imports
LinkStatements(path) ==
  {FunctionStatement(path, m, <<>>) : m \in ModifierChoices}
    \cup {VariableStatement(<<VariableDeclaration(path, PATH_DELIMITER, "f", {"EXPORT"}, <<>>)>>)}
    \cup {ExportStatement(path, "f", "f", NoPath)}
    \cup {ExportStatement(path, "f", "f", q) : q \in Paths}
    \cup {ImportStatement(path, "f", "f", q) : q \in Paths \ {path}}

ClassBody(path, class) ==
  << FieldDeclaration(class, "s", {"STATIC"}, TypeNode(path, "i32")),
     FieldDeclaration(class, "x", {}, TypeNode(path, "i32")),
     MethodDeclaration(class, "m", {"STATIC"}, <<>>, <<>>, TypeNode(path, "void")),
     MethodDeclaration(class, "n", {}, <<>>, <<>>, TypeNode(path, "void")),
     MethodDeclaration(class, "v", {"STATIC", "GET"}, <<>>, <<>>, TypeNode(path, "i32")),
     MethodDeclaration(class, "v", {"STATIC", "SET"}, <<>>, <<ParameterNode("x", TypeNode(path, "i32"))>>, NoNode),
     MethodDeclaration(class, "w", {"GET"}, <<>>, <<>>, TypeNode(path, "i32")),
     MethodDeclaration(class, "w", {"SET"}, <<>>, <<ParameterNode("x", TypeNode(path, "i32"))>>, NoNode) >>

InterfaceBody(path, interface) ==
  << FieldDeclaration(interface, "x", {}, TypeNode(path, "i32")),
     MethodDeclaration(interface, "n", {}, <<>>, <<>>, TypeNode(path, "void")) >>

NamespaceBodies(path, namespace) ==
  { <<FunctionDeclaration(namespace, STATIC_DELIMITER, "f", {}, <<>>, <<>>, <<>>, TypeNode(path, "void"))>>,
    << NamespaceDeclaration(namespace, STATIC_DELIMITER, "N", {},
         <<FunctionDeclaration(mangleInternalName(namespace, STATIC_DELIMITER, "N"), STATIC_DELIMITER, "f",
                               {}, <<>>, <<>>, <<>>, TypeNode(path, "void"))>>),
       ClassDeclaration("CLASS", namespace, STATIC_DELIMITER, "f", {}, <<>>, <<>>, <<>>),
       EnumDeclaration(namespace, STATIC_DELIMITER, "E", {}, <<"A">>),
       ClassDeclaration("INTERFACE", namespace, STATIC_DELIMITER, "I", {}, <<>>, <<>>, <<>>),
       VariableStatement(<<VariableDeclaration(namespace, STATIC_DELIMITER, "f", {}, <<>>)>>),
       TypeDeclaration("t", TypeNode(path, "i32")) >> }

DeclarationStatements(path) ==
  LET f == mangleInternalName(path, PATH_DELIMITER, "f")
      N == mangleInternalName(path, PATH_DELIMITER, "N")
  IN {FunctionStatement(path, m, d) : m \in ModifierChoices, d \in DecoratorChoices}
       \cup {ClassDeclaration("CLASS", path, PATH_DELIMITER, "f", m, d, <<>>, ClassBody(path, f)) :
               m \in ModifierChoices, d \in DecoratorChoices}
       \cup {ClassDeclaration("INTERFACE", path, PATH_DELIMITER, "f", m, <<>>, <<>>, InterfaceBody(path, f)) :
               m \in ModifierChoices}
       \cup {EnumDeclaration(path, PATH_DELIMITER, "f", m, <<"A", "B", "A">>) : m \in ModifierChoices}
       \cup {VariableStatement(<<VariableDeclaration(path, PATH_DELIMITER, "f", m, d)>>) :
               m \in ModifierChoices, d \in DecoratorChoices}
       \cup {NamespaceDeclaration(path, PATH_DELIMITER, "f", m, <<>>) : m \in ModifierChoices}
       \cup {NamespaceDeclaration(path, PATH_DELIMITER, "N", m, b) : m \in ModifierChoices, b \in NamespaceBodies(path, N)}
       \cup {TypeDeclaration("f", TypeNode(path, "i32")), TypeDeclaration("i32", TypeNode(path, "f64"))}
       \cup {ImportNamespaceStatement(path, "f", "b")}
       \cup {ExportStatement(path, "f", "f", NoPath), ExportStatement(path, "f", "f", "b"),
             ImportStatement(path, "f", "f", "b")}

\* the statement lists of length 1..n over a set of statements
RECURSIVE StatementLists(_, _)
StatementLists(statements, n) ==
  IF n = 0 THEN {}
  ELSE {<<s>> : s \in statements}
         \cup {Append(l, s) : l \in StatementLists(statements, n - 1), s \in statements}

\* a, b and main in every order, one linking statement each
ThreeFilePrograms ==
  {<<Source(o[1], <<s[1]>>), Source(o[2], <<s[2]>>), Source(o[3], <<s[3]>>)>> :
     <<o, s>> \in UNION {{<<o, s>> : s \in LinkStatements(o[1]) \X LinkStatements(o[2]) \X LinkStatements(o[3])} :
                           o \in {o \in [1..3 -> Paths] : \A i, j \in 1..3 : o[i] = o[j] => i = j}}}

\* a with up to MaxStatements linking statements and b with one, in either order
TwoFilePrograms ==
  UNION {{<<Source("a", l), Source("b", <<s>>)>>, <<Source("b", <<s>>), Source("a", l)>>} :
           l \in StatementLists(LinkStatements("a"), MaxStatements), s \in LinkStatements("b")}

\* a with up to MaxStatements statements of any kind, alone or beside b, which exports a function f
DeclarationPrograms ==
  LET b == Source("b", <<FunctionStatement("b", {"EXPORT"}, <<>>)>>)
  IN UNION {{<<Source("a", l)>>, <<b, Source("a", l)>>, <<Source("a", l), b>>} :
              l \in StatementLists(DeclarationStatements("a"), MaxStatements)}

\* b holds one exported declaration of f, main imports f from b; either file first
ImportPrograms ==
  LET main == Source("main", <<ImportStatement("main", "f", "f", "b")>>)
      exported == {s \in DeclarationStatements("b") :
                     IF s.kind = "VARIABLE" THEN "EXPORT" \in s.declarations[1].modifiers
                     ELSE /\ s.kind \in {"CLASS", "ENUM", "FUNCTION", "INTERFACE", "NAMESPACE"}
                          /\ s.name = "f"
                          /\ "EXPORT" \in s.modifiers}
  IN UNION {{<<Source("b", <<s>>), main>>, <<main, Source("b", <<s>>)>>} : s \in exported}

\* a holds one declaration of f of any kind, with or without @global;
\* b, when there, holds a @global function f and comes first or last
GlobalPrograms ==
  LET b == Source("b", <<FunctionStatement("b", {}, <<GlobalDecorator>>)>>)
      declarations ==
        UNION {{ FunctionStatement("a", {}, d),
                 ClassDeclaration("CLASS", "a", PATH_DELIMITER, "f", {}, d, <<>>, <<>>),
                 ClassDeclaration("INTERFACE", "a", PATH_DELIMITER, "f", {}, d, <<>>, <<>>),
                 [EnumDeclaration("a", PATH_DELIMITER, "f", {}, <<"A">>) EXCEPT !.decorators = d],
                 [NamespaceDeclaration("a", PATH_DELIMITER, "f", {}, <<>>) EXCEPT !.decorators = d],
                 VariableStatement(<<VariableDeclaration("a", PATH_DELIMITER, "f", {}, d)>>) } :
               d \in DecoratorChoices}
  IN UNION {{<<Source("a", <<s>>)>>, <<b, Source("a", <<s>>)>>, <<Source("a", <<s>>), b>>} : s \in declarations}

\* the longest member list of the class whose members vary freely
MaxMembers == 3

\* a holds one class or interface C with up to MaxMembers members named v:
\* fields, methods, getters and setters, each static or not
MemberPrograms ==
  LET choices ==
        UNION {{ FieldDeclaration("a/C", "v", m, TypeNode("a", "i32")),
                 MethodDeclaration("a/C", "v", m, <<>>, <<>>, TypeNode("a", "void")),
                 MethodDeclaration("a/C", "v", m \cup {"GET"}, <<>>, <<>>, TypeNode("a", "i32")),
                 MethodDeclaration("a/C", "v", m \cup {"SET"}, <<>>,
                                   <<ParameterNode("x", TypeNode("a", "i32"))>>, NoNode) } :
                m \in {{}, {"STATIC"}}}
  IN {<<Source("a", <<ClassDeclaration(k, "a", PATH_DELIMITER, "C", {}, <<>>, <<>>, l)>>)>> :
        k \in {"CLASS", "INTERFACE"}, l \in StatementLists(choices, MaxMembers)}

\* b exports its function g under the name f, by an export statement before or after
\* the declaration; a, bound after b, imports or re-exports f from b
RenamePrograms ==
  LET g == FunctionDeclaration("b", PATH_DELIMITER, "g", {}, <<>>, <<>>, <<>>, TypeNode("b", "void"))
      renamed == ExportStatement("b", "g", "f", NoPath)
  IN {<<Source("b", l), Source("a", <<s>>)>> :
        l \in {<<renamed, g>>, <<g, renamed>>},
        s \in {ImportStatement("a", "f", "f", "b"), ExportStatement("a", "f", "f", "b")}}

Programs ==
  ThreeFilePrograms \cup TwoFilePrograms \cup DeclarationPrograms
    \cup ImportPrograms \cup GlobalPrograms \cup MemberPrograms \cup RenamePrograms

\* the declarations of DeclarationStatements with at most two members
ShortDeclarationStatements(path) ==
  {s \in DeclarationStatements(path) : s.kind \in {"CLASS", "NAMESPACE"} => Len(s.members) <= 1}
    \cup {ClassDeclaration("CLASS", path, PATH_DELIMITER, "f", m, <<>>, <<>>,
                            <<FieldDeclaration(mangleInternalName(path, PATH_DELIMITER, "f"), "x", {}, TypeNode(path, "i32"))>>) :
             m \in ModifierChoices}

\* programs of at most two files with one statement each
SmallPrograms ==
  LET b == Source("b", <<FunctionStatement("b", {"EXPORT"}, <<>>)>>)
  IN UNION {{<<Source("a", <<s>>), Source("b", <<t>>)>>, <<Source("b", <<t>>), Source("a", <<s>>)>>} :
              s \in LinkStatements("a"), t \in LinkStatements("b")}
       \cup UNION {{<<Source("a", <<s>>)>>, <<b, Source("a", <<s>>)>>, <<Source("a", <<s>>), b>>} :
                     s \in ShortDeclarationStatements("a")}

\* a function without modifiers returning void
PlainFunction(path, parent, delim, name, typeParameters, parameters) ==
  FunctionDeclaration(parent, delim, name, {}, <<>>, typeParameters, parameters, TypeNode(path, "void"))

Optional(present, statement) == IF present THEN <<statement>> ELSE <<>>

\* S6 and its neighbours: file a holds namespace N { [f] g(f: i32) namespace M { [f] h } }, [f] and t;
\* file b, when there, holds a @global f.  Each f is there or not.
ScopePrograms ==
  { << Source("a",
         << NamespaceDeclaration("a", PATH_DELIMITER, "N", {},
              Optional(nf, PlainFunction("a", "a/N", STATIC_DELIMITER, "f", <<>>, <<>>))
                \o << PlainFunction("a", "a/N", STATIC_DELIMITER, "g", <<>>,
                                    <<ParameterNode("f", TypeNode("a", "i32"))>>),
                      NamespaceDeclaration("a/N", STATIC_DELIMITER, "M", {},
                        Optional(mf, PlainFunction("a", "a/N.M", STATIC_DELIMITER, "f", <<>>, <<>>))
                          \o <<PlainFunction("a", "a/N.M", STATIC_DELIMITER, "h", <<>>, <<>>)>>) >>) >>
           \o Optional(af, FunctionStatement("a", {}, <<>>))
           \o <<PlainFunction("a", "a", PATH_DELIMITER, "t", <<>>, <<>>)>>) >>
      \o Optional(gf, Source("b", <<FunctionStatement("b", {}, <<GlobalDecorator>>)>>)) :
    nf \in BOOLEAN, mf \in BOOLEAN, af \in BOOLEAN, gf \in BOOLEAN }

\* function id<T>(x: T): T {}
IdDeclaration ==
  FunctionDeclaration("a", PATH_DELIMITER, "id", {}, <<>>, <<"T">>,
                      <<ParameterNode("x", TypeNode("a", "T"))>>, TypeNode("a", "T"))

\* generic functions and methods; parameters typed by an alias, by an unknown name, or not at all
GenericPrograms ==
  { << Source("a",
         << IdDeclaration,
            ClassDeclaration("CLASS", "a", PATH_DELIMITER, "C", {}, <<>>, <<"T">>,
              << MethodDeclaration("a/C", "m", {"STATIC"}, <<"U">>,
                                   <<ParameterNode("x", TypeNode("a", "U"))>>, TypeNode("a", "T")),
                 MethodDeclaration("a/C", "n", {}, <<>>,
                                   <<ParameterNode("x", TypeNode("a", "T"))>>, TypeNode("a", "T")) >>) >>) >>,
    << Source("a",
         << TypeDeclaration("t", TypeNode("a", "i32")),
            FunctionDeclaration("a", PATH_DELIMITER, "h", {}, <<>>, <<>>,
                                <<ParameterNode("x", TypeNode("a", "t")), ParameterNode("x", TypeNode("a", "f64"))>>,
                                TypeNode("a", "number")),
            PlainFunction("a", "a", PATH_DELIMITER, "u", <<>>, <<ParameterNode("y", NoNode)>>),
            PlainFunction("a", "a", PATH_DELIMITER, "w", <<>>, <<ParameterNode("x", TypeNode("a", "zz"))>>),
            ClassDeclaration("CLASS", "a", PATH_DELIMITER, "D", {}, <<>>, <<>>,
              << MethodDeclaration("a/D", "v", {"STATIC", "SET"}, <<>>,
                                   <<ParameterNode("x", TypeNode("a", "i32"))>>, NoNode) >>) >>) >> }

\* classes to resolve: class C<T> { x: T; n(x: T): T }, class E { get w(): i32 }, interface I<T> { x: T }
ClassPrograms ==
  { << Source("a",
         << ClassDeclaration("CLASS", "a", PATH_DELIMITER, "C", {}, <<>>, <<"T">>,
              << FieldDeclaration("a/C", "x", {}, TypeNode("a", "T")),
                 MethodDeclaration("a/C", "n", {}, <<>>,
                                   <<ParameterNode("x", TypeNode("a", "T"))>>, TypeNode("a", "T")) >>),
            ClassDeclaration("CLASS", "a", PATH_DELIMITER, "E", {}, <<>>, <<>>,
              << MethodDeclaration("a/E", "w", {"GET"}, <<>>, <<>>, TypeNode("a", "i32")) >>),
            ClassDeclaration("INTERFACE", "a", PATH_DELIMITER, "I", {}, <<>>, <<"T">>,
              << FieldDeclaration("a/I", "x", {}, TypeNode("a", "T")) >>) >>) >> }

\* type aliases to chase: a chain, an alias of an unknown name, an alias named like a
\* placeholder and an alias of a placeholder's name; and aliases declared again, at
\* the top of a file and in a namespace
TypePrograms ==
  { << Source("a",
         << TypeDeclaration("t", TypeNode("a", "i32")),
            TypeDeclaration("u", TypeNode("a", "t")),
            TypeDeclaration("w", TypeNode("a", "zz")),
            TypeDeclaration("T", TypeNode("a", "i32")),
            TypeDeclaration("p", TypeNode("a", "V")) >>) >>,
    << Source("a",
         << TypeDeclaration("t", TypeNode("a", "i32")),
            TypeDeclaration("t", TypeNode("a", "f64")),
            TypeDeclaration("i32", TypeNode("a", "f64")),
            NamespaceDeclaration("a", PATH_DELIMITER, "N", {},
              << TypeDeclaration("t", TypeNode("a", "u8")),
                 TypeDeclaration("n", TypeNode("a", "i32")),
                 TypeDeclaration("n", TypeNode("a", "f64")) >>) >>) >> }

\* aliases that lead back to themselves: t to itself, u and w to each other, p to t;
\* and one that does not
CyclicTypePrograms ==
  { << Source("a",
         << TypeDeclaration("t", TypeNode("a", "t")),
            TypeDeclaration("u", TypeNode("a", "w")),
            TypeDeclaration("w", TypeNode("a", "u")),
            TypeDeclaration("p", TypeNode("a", "t")),
            TypeDeclaration("T", TypeNode("a", "i32")) >>) >> }

\* the longest log of resolver calls
MaxCalls == 2

\* the longest list of type arguments passed to resolve
MaxTypeArguments == 1

RECURSIVE TypeLists(_)
TypeLists(n) ==
  IF n = 0 THEN {<<>>}
  ELSE TypeLists(n - 1) \cup {Append(l, t) : l \in {l \in TypeLists(n - 1) : Len(l) = n - 1}, t \in {"i32", "f64"}}

TypeArgumentChoices == {None} \cup {Some(l) : l \in TypeLists(MaxTypeArguments)}

ContextChoices == {None, Some([n \in {"T", "V"} |-> "f64"])}

\* the statements of all sources in the order initialize visits them
RECURSIVE Statements(_)
Statements(srcs) == IF srcs = <<>> THEN <<>> ELSE Head(srcs).statements \o Statements(Tail(srcs))

\* Program.types as initialize sets it
PrimitiveTypes(tgt) ==
  [n \in {"i8", "i16", "i32", "i64", "isize", "u8", "u16", "u32", "u64", "usize", "bool", "f32", "f64",
          "void", "number", "boolean"} |->
     CASE n = "isize" -> (IF tgt = "WASM64" THEN "isize64" ELSE "isize32")
       [] n = "usize" -> (IF tgt = "WASM64" THEN "usize64" ELSE "usize32")
       [] n = "number" -> "f64"
       [] n = "boolean" -> "bool"
       [] OTHER -> n]

(***************************************************************************)
(* State                                                                   *)
(***************************************************************************)
VARIABLES
  sources,        \* Program.sources
  target,         \* Program.target
  elements,       \* Program.elements
  exports,        \* Program.exports
  types,          \* Program.types
  typeAliases,    \* Program.typeAliases
  entities,       \* the arena of Element objects
  diagnostics,    \* the diagnostics emitted, in order
  queuedExports,  \* initialize(): queuedExports
  queuedImports,  \* initialize(): queuedImports
  pc,             \* where initialize() stands
  pos,            \* the statement the binding loop is at
  importIndex,    \* i of the queued-import loop
  referencedName, \* tryResolveImport(): referencedName
  exportIndex,    \* position of the queued-export loop
  currentExport,  \* the queued-export loop's currentExport (an index into queuedExports, 0 for null)
  calls           \* the resolver calls made after initialize(), with what each returned

vars == <<sources, target, elements, exports, types, typeAliases, entities, diagnostics,
          queuedExports, queuedImports, pc, pos, importIndex, referencedName, exportIndex, currentExport, calls>>

Prog ==
  [elements |-> elements, exports |-> exports, types |-> types, typeAliases |-> typeAliases,
   entities |-> entities, diagnostics |-> diagnostics,
   queuedExports |-> queuedExports, queuedImports |-> queuedImports]

Commit(q) ==
  /\ elements' = q.elements
  /\ exports' = q.exports
  /\ typeAliases' = q.typeAliases
  /\ entities' = q.entities
  /\ diagnostics' = q.diagnostics
  /\ queuedExports' = q.queuedExports
  /\ queuedImports' = q.queuedImports

\* the program as initialize() has it when the binding loop starts
EmptyProgram(tgt) ==
  [elements |-> EmptyMap, exports |-> EmptyMap, types |-> PrimitiveTypes(tgt), typeAliases |-> EmptyMap,
   entities |-> <<>>, diagnostics |-> <<>>, queuedExports |-> <<>>, queuedImports |-> <<>>]

\* the state in which initialize() starts on one of the given programs
Start(programs) ==
  /\ sources \in programs
  /\ target = "WASM32"
  /\ elements = EmptyMap
  /\ exports = EmptyMap
  /\ types = PrimitiveTypes(target)
  /\ typeAliases = EmptyMap
  /\ entities = <<>>
  /\ diagnostics = <<>>
  /\ queuedExports = <<>>
  /\ queuedImports = <<>>
  /\ pc = "bind"
  /\ pos = 1
  /\ importIndex = 1
  /\ referencedName = ""
  /\ exportIndex = 1
  /\ currentExport = 0
  /\ calls = <<>>

Init == Start(Programs)

(***************************************************************************)
(* initialize(): the binding loop, one action per statement kind           *)
(***************************************************************************)
Statement == Statements(sources)[pos]

AtStatement(kind) ==
  /\ pc = "bind"
  /\ pos <= Len(Statements(sources))
  /\ Statement.kind = kind

\* the body of the binding loop: the handler of the statement's kind
initializeStatement(p, statement) ==
  CASE statement.kind = "CLASS" -> initializeClass(p, statement, Null)
    [] statement.kind = "ENUM" -> initializeEnum(p, statement, Null)
    [] statement.kind = "EXPORT" -> initializeExports(p, statement)
    [] statement.kind = "FUNCTION" -> initializeFunction(p, statement, Null)
    [] statement.kind = "IMPORT" -> initializeImports(p, statement)
    [] statement.kind = "INTERFACE" -> initializeInterface(p, statement, Null)
    [] statement.kind = "NAMESPACE" -> initializeNamespace(p, statement, Null)
    [] statement.kind = "TYPEDECLARATION" -> initializeType(p, statement, Null)
    [] statement.kind = "VARIABLE" -> initializeVariables(p, statement, Null)

\* the binding loop over a list of statements
RECURSIVE initializeStatements(_, _)
initializeStatements(p, statements) ==
  IF statements = <<>> THEN p
  ELSE initializeStatements(initializeStatement(p, Head(statements)), Tail(statements))

\* the loop, were it left at the first statement that emits a diagnostic
AdvanceStopping ==
  /\ pos' = IF diagnostics' # diagnostics THEN Len(Statements(sources)) + 1 ELSE pos + 1
  /\ pc' = IF pos' > Len(Statements(sources)) THEN "imports" ELSE "bind"
  /\ UNCHANGED <<sources, target, types, importIndex, referencedName, exportIndex, currentExport, calls>>

\* the loop advances; after the last statement the queued-import loop starts
Advance ==
  /\ pos' = pos + 1
  /\ pc' = IF pos = Len(Statements(sources)) THEN "imports" ELSE "bind"
  /\ UNCHANGED <<sources, target, types, importIndex, referencedName, exportIndex, currentExport, calls>>

BindClass == AtStatement("CLASS") /\ Commit(initializeClass(Prog, Statement, Null)) /\ Advance

BindEnum == AtStatement("ENUM") /\ Commit(initializeEnum(Prog, Statement, Null)) /\ Advance

BindExport == AtStatement("EXPORT") /\ Commit(initializeExports(Prog, Statement)) /\ Advance

BindFunction == AtStatement("FUNCTION") /\ Commit(initializeFunction(Prog, Statement, Null)) /\ Advance

BindImport == AtStatement("IMPORT") /\ Commit(initializeImports(Prog, Statement)) /\ Advance

BindInterface == AtStatement("INTERFACE") /\ Commit(initializeInterface(Prog, Statement, Null)) /\ Advance

BindNamespace == AtStatement("NAMESPACE") /\ Commit(initializeNamespace(Prog, Statement, Null)) /\ Advance

BindType == AtStatement("TYPEDECLARATION") /\ Commit(initializeType(Prog, Statement, Null)) /\ Advance

BindVariable == AtStatement("VARIABLE") /\ Commit(initializeVariables(Prog, Statement, Null)) /\ Advance

(***************************************************************************)
(* initialize(): the queued-import loop and tryResolveImport               *)
(***************************************************************************)
Unbound == UNCHANGED <<sources, target, types, typeAliases, entities, pos, calls>>

\* head of `for (i = 0; i < queuedImports.length;)`: call tryResolveImport, or go on to the exports
ResolveQueuedImports ==
  /\ pc = "imports"
  /\ IF importIndex <= Len(queuedImports)
     THEN /\ referencedName' = queuedImports[importIndex].referencedName
          /\ pc' = "tryResolveImport"
     ELSE /\ referencedName' = referencedName
          /\ pc' = "exports"
  /\ UNCHANGED <<elements, exports, diagnostics, queuedExports, queuedImports, importIndex, exportIndex, currentExport>>
  /\ Unbound

importResolvedDropped(p, i, element) ==
  LET queuedImport == p.queuedImports[i]
  IN IF element # Null
     THEN [p EXCEPT !.queuedImports = SubSeq(@, 1, i - 1) \o SubSeq(@, i + 1, Len(@))]
     ELSE error(p, Module_0_has_no_exported_member_1,
                <<queuedImport.declaration.path, queuedImport.declaration.externalIdentifier>>)

\* the rest of the loop body once tryResolveImport has returned `element`
importResolved(p, i, element) ==
  LET queuedImport == p.queuedImports[i]
  IN IF element # Null
     THEN [p EXCEPT !.elements = Put(@, queuedImport.internalName, element),
                    !.queuedImports = SubSeq(@, 1, i - 1) \o SubSeq(@, i + 1, Len(@))]
     ELSE error(p, Module_0_has_no_exported_member_1,
                <<queuedImport.declaration.path, queuedImport.declaration.externalIdentifier>>)

ReturnFromTryResolveImport(element) ==
  /\ Commit(importResolved(Prog, importIndex, element))
  /\ importIndex' = IF element # Null THEN importIndex ELSE importIndex + 1
  /\ pc' = "imports"
  /\ UNCHANGED <<referencedName, exportIndex, currentExport>>
  /\ Unbound

\* tryResolveImport, first half of the loop body: the lookup in exports
TryResolveImportExports ==
  /\ pc = "tryResolveImport"
  /\ IF Get(exports, referencedName) # Null
     THEN ReturnFromTryResolveImport(Get(exports, referencedName))
     ELSE /\ pc' = "tryResolveImportQueued"
          /\ UNCHANGED <<elements, exports, diagnostics, queuedExports, queuedImports,
                         importIndex, referencedName, exportIndex, currentExport>>
          /\ Unbound

\* tryResolveImport, second half of the loop body: the lookup in queuedExports
TryResolveImportQueued ==
  /\ pc = "tryResolveImportQueued"
  /\ LET i == QueuedIndex(queuedExports, referencedName)
     IN IF i = 0
        THEN ReturnFromTryResolveImport(Null)
        ELSE IF queuedExports[i].isReExport
        THEN /\ referencedName' = queuedExports[i].referencedName
             /\ pc' = "tryResolveImport"
             /\ UNCHANGED <<elements, exports, diagnostics, queuedExports, queuedImports,
                            importIndex, exportIndex, currentExport>>
             /\ Unbound
        ELSE ReturnFromTryResolveImport(Get(elements, queuedExports[i].referencedName))

(***************************************************************************)
(* initialize(): the queued-export loop                                    *)
(***************************************************************************)
\* head of `for (var [exportName, queuedExport] of queuedExports)`
ResolveQueuedExports ==
  /\ pc = "exports"
  /\ IF exportIndex <= Len(queuedExports)
     THEN /\ currentExport' = exportIndex
          /\ pc' = "queuedExport"
     ELSE /\ currentExport' = currentExport
          /\ pc' = "done"
  /\ UNCHANGED <<elements, exports, diagnostics, queuedExports, queuedImports, importIndex, referencedName, exportIndex>>
  /\ Unbound

\* the do-while is left: on to the next queued export
NextQueuedExport(p) ==
  /\ Commit(p)
  /\ exportIndex' = exportIndex + 1
  /\ pc' = "exports"
  /\ UNCHANGED <<importIndex, referencedName, currentExport>>
  /\ Unbound

\* queuedExportLookup, were a missing element passed over in silence
queuedExportLookupSilent(p, exportName, queuedExport, current) ==
  IF current.isReExport
  THEN [p EXCEPT !.exports = Put(@, exportName, Get(p.exports, current.referencedName))]
  ELSE IF Get(p.elements, current.referencedName) # Null
  THEN [p EXCEPT !.exports = Put(@, exportName, Get(p.elements, current.referencedName))]
  ELSE p

\* what the lookup at the head of the do-while body binds or reports, when it ends the loop
queuedExportLookup(p, exportName, queuedExport, current) ==
  IF current.isReExport
  THEN [p EXCEPT !.exports = Put(@, exportName, Get(p.exports, current.referencedName))]
  ELSE IF Get(p.elements, current.referencedName) # Null
  THEN [p EXCEPT !.exports = Put(@, exportName, Get(p.elements, current.referencedName))]
  ELSE error(p, Cannot_find_name_0, <<queuedExport.member.identifier>>)

\* do-while body up to the break: the lookup of the current link
QueuedExportLookup ==
  /\ pc = "queuedExport"
  /\ LET current == queuedExports[currentExport]
     IN IF current.isReExport /\ Get(exports, current.referencedName) = Null
        THEN /\ pc' = "queuedExportAdvance"
             /\ UNCHANGED <<elements, exports, diagnostics, queuedExports, queuedImports,
                            importIndex, referencedName, exportIndex, currentExport>>
             /\ Unbound
        ELSE NextQueuedExport(queuedExportLookup(Prog, queuedExports[exportIndex].name,
                                                 queuedExports[exportIndex], current))

\* do-while body after the failed lookup: follow the re-export link, and the loop test
QueuedExportAdvance ==
  /\ pc = "queuedExportAdvance"
  /\ LET next == QueuedIndex(queuedExports, queuedExports[currentExport].referencedName)
         queuedExport == queuedExports[exportIndex]
     IN IF next = 0
        THEN NextQueuedExport(error(Prog, Module_0_has_no_exported_member_1,
                                    <<queuedExport.member.path, queuedExport.member.externalIdentifier>>))
        ELSE /\ currentExport' = next
             /\ pc' = "queuedExport"
             /\ UNCHANGED <<elements, exports, diagnostics, queuedExports, queuedImports,
                            importIndex, referencedName, exportIndex>>
             /\ Unbound

Next ==
  \/ BindClass
  \/ BindEnum
  \/ BindExport
  \/ BindFunction
  \/ BindImport
  \/ BindInterface
  \/ BindNamespace
  \/ BindType
  \/ BindVariable
  \/ ResolveQueuedImports
  \/ TryResolveImportExports
  \/ TryResolveImportQueued
  \/ ResolveQueuedExports
  \/ QueuedExportLookup
  \/ QueuedExportAdvance

Spec == Init /\ [][Next]_vars

\* initialize() runs on one thread and never yields: a step that can be taken is taken
FairSpec == Start(SmallPrograms) /\ [][Next]_vars /\ WF_vars(Next)

(***************************************************************************)
(* initialize() as a function of the sources: the binding loop and the two *)
(* loops over the queues, run to the end.  `terminated` is FALSE when a    *)
(* walk over re-exports returns to an entry, where the code loops forever. *)
(***************************************************************************)
\* tryResolveImport(referencedName): [terminated, element]; `left` bounds the walk
RECURSIVE tryResolveImport(_, _, _)
tryResolveImport(p, name, left) ==
  LET i == QueuedIndex(p.queuedExports, name)
  IN IF Get(p.exports, name) # Null THEN [terminated |-> TRUE, element |-> Get(p.exports, name)]
     ELSE IF i = 0 THEN [terminated |-> TRUE, element |-> Null]
     ELSE IF ~p.queuedExports[i].isReExport
     THEN [terminated |-> TRUE, element |-> Get(p.elements, p.queuedExports[i].referencedName)]
     ELSE IF left = 0 THEN [terminated |-> FALSE, element |-> Null]
     ELSE tryResolveImport(p, p.queuedExports[i].referencedName, left - 1)

\* `for (i = 0; i < queuedImports.length;)` from index i on: [program, terminated]
RECURSIVE resolveQueuedImports(_, _)
resolveQueuedImportsWith(p, i, resolved) ==
  IF ~resolved.terminated THEN [program |-> p, terminated |-> FALSE]
  ELSE resolveQueuedImports(importResolved(p, i, resolved.element),
                            IF resolved.element # Null THEN i ELSE i + 1)

resolveQueuedImports(p, i) ==
  IF i > Len(p.queuedImports) THEN [program |-> p, terminated |-> TRUE]
  ELSE resolveQueuedImportsWith(p, i, tryResolveImport(p, p.queuedImports[i].referencedName,
                                                       Len(p.queuedExports)))

\* the do-while over the links of the queued export at index i, standing at link
\* `current`: [program, terminated]; `left` bounds the walk
RECURSIVE resolveQueuedExport(_, _, _, _)
resolveQueuedExport(p, i, current, left) ==
  LET link == p.queuedExports[current]
      next == QueuedIndex(p.queuedExports, link.referencedName)
  IN IF ~(link.isReExport /\ Get(p.exports, link.referencedName) = Null)
     THEN [program |-> queuedExportLookup(p, p.queuedExports[i].name, p.queuedExports[i], link),
           terminated |-> TRUE]
     ELSE IF next = 0
     THEN [program |-> error(p, Module_0_has_no_exported_member_1,
                             <<p.queuedExports[i].member.path, p.queuedExports[i].member.externalIdentifier>>),
           terminated |-> TRUE]
     ELSE IF left = 0 THEN [program |-> p, terminated |-> FALSE]
     ELSE resolveQueuedExport(p, i, next, left - 1)

\* `for (var [exportName, queuedExport] of queuedExports)` from index i on
RECURSIVE resolveQueuedExports(_, _)
resolveQueuedExportsWith(resolved, i) ==
  IF ~resolved.terminated THEN resolved ELSE resolveQueuedExports(resolved.program, i + 1)

resolveQueuedExports(p, i) ==
  IF i > Len(p.queuedExports) THEN [program |-> p, terminated |-> TRUE]
  ELSE resolveQueuedExportsWith(resolveQueuedExport(p, i, i, Len(p.queuedExports)), i)

initializeQueued(imported) ==
  IF ~imported.terminated THEN imported ELSE resolveQueuedExports(imported.program, 1)

\* program.initialize(target) on the given sources: [program, terminated]
initialize(tgt, srcs) ==
  initializeQueued(resolveQueuedImports(initializeStatements(EmptyProgram(tgt), Statements(srcs)), 1))

(***************************************************************************)
(* The resolver, called once initialize() is done                          *)
(***************************************************************************)
Call(op, prototype, typeArguments, contextualTypeArguments, identifier, contextualFunction, outcome, result) ==
  [op |-> op, prototype |-> prototype, typeArguments |-> typeArguments,
   contextualTypeArguments |-> contextualTypeArguments, identifier |-> identifier,
   contextualFunction |-> contextualFunction, outcome |-> outcome, result |-> result]

Resolving ==
  /\ pc = "done"
  /\ Len(calls) < MaxCalls
  /\ UNCHANGED <<sources, target, types, pc, pos, importIndex, referencedName, exportIndex, currentExport>>

\* prototype.resolve(typeArguments, contextualTypeArguments) on a function prototype of the program
ResolveFunctionPrototype ==
  /\ Resolving
  /\ \E prototype \in {r \in 1..Len(entities) : entities[r].kind = "FUNCTION_PROTOTYPE"},
        typeArguments \in TypeArgumentChoices, contextualTypeArguments \in ContextChoices :
       LET resolved == FunctionPrototype_resolve(Prog, prototype, typeArguments, contextualTypeArguments)
       IN /\ Commit(resolved.program)
          /\ calls' = Append(calls, Call("resolve", prototype, typeArguments, contextualTypeArguments,
                                         NoNode, Null, resolved.outcome, resolved.result))

\* program.resolveIdentifier(identifier, contextualFunction) for an identifier of one of the files
ResolveIdentifier ==
  /\ Resolving
  /\ \E contextualFunction \in {r \in 1..Len(entities) : entities[r].kind = "FUNCTION"},
        name \in {"f", "zz"}, source \in {sources[i].internalPath : i \in 1..Len(sources)} :
       LET resolved == resolveIdentifier(Prog, IdentifierExpression(source, name), contextualFunction)
       IN /\ Commit(resolved.program)
          /\ calls' = Append(calls, Call("resolveIdentifier", Null, None, None,
                                         IdentifierExpression(source, name), contextualFunction,
                                         "returned", resolved.result))

\* prototype.resolve(typeArguments, contextualTypeArguments) on a class or interface prototype
ResolveClassPrototype ==
  /\ Resolving
  /\ \E prototype \in {r \in 1..Len(entities) : entities[r].kind \in {"CLASS_PROTOTYPE", "INTERFACE_PROTOTYPE"}},
        typeArguments \in TypeLists(MaxTypeArguments), contextualTypeArguments \in ContextChoices :
       LET resolved == ClassPrototype_resolve(Prog, prototype, typeArguments, contextualTypeArguments)
       IN /\ Commit(resolved.program)
          /\ calls' = Append(calls, Call("resolveClass", prototype, Some(typeArguments), contextualTypeArguments,
                                         NoNode, Null, resolved.outcome, resolved.result))

\* program.resolveTypeArguments(typeParameters, typeArgumentNodes, contextualTypeArguments, alternativeReportNode)
ResolveTypeArguments ==
  /\ Resolving
  /\ \E typeParameters \in {<<>>, <<"T">>, <<"T", "U">>},
        typeArgumentNodes \in {None, Some(<<TypeNode("a", "i32")>>), Some(<<TypeNode("a", "zz")>>),
                               Some(<<TypeNode("a", "i32"), TypeNode("a", "f64")>>)},
        alternativeReportNode \in {NoNode, IdentifierExpression("a", "f")} :
       LET resolved == resolveTypeArguments(Prog, typeParameters, typeArgumentNodes, None, alternativeReportNode)
       IN /\ Commit(resolved.program)
          /\ calls' = Append(calls, Call("resolveTypeArguments", Null, None, None, NoNode, Null, "returned", Null)
                                      @@ [typeParameters |-> typeParameters,
                                          typeArgumentNodes |-> typeArgumentNodes,
                                          alternativeReportNode |-> alternativeReportNode,
                                          types |-> resolved.types])

\* program.resolvePropertyAccess(propertyAccess, contextualFunction) for the
\* accesses N.x, zz.x, N.M.x and N.zz.x of file a, x being f or zz
ResolvePropertyAccess ==
  /\ Resolving
  /\ \E contextualFunction \in {r \in 1..Len(entities) : entities[r].kind = "FUNCTION"},
        expression \in {IdentifierExpression("a", "N"), IdentifierExpression("a", "zz"),
                        PropertyAccessExpression(IdentifierExpression("a", "N"), IdentifierExpression("a", "M")),
                        PropertyAccessExpression(IdentifierExpression("a", "N"), IdentifierExpression("a", "zz"))},
        name \in {"f", "zz"} :
       LET propertyAccess == PropertyAccessExpression(expression, IdentifierExpression("a", name))
           resolved == resolvePropertyAccess(Prog, propertyAccess, contextualFunction)
       IN /\ Commit(resolved.program)
          /\ calls' = Append(calls, Call("resolvePropertyAccess", Null, None, None, NoNode, contextualFunction,
                                         resolved.outcome, resolved.result)
                                      @@ [propertyAccess |-> propertyAccess])

ResolveNext ==
  \/ Next
  \/ ResolveFunctionPrototype
  \/ ResolveIdentifier
  \/ ResolveClassPrototype
  \/ ResolveTypeArguments
  \/ ResolvePropertyAccess

\* initialize() on a small program, a scope program or a generic program, and then the resolver
ResolveInit ==
  Start(SmallPrograms) \/ Start(ScopePrograms) \/ Start(GenericPrograms) \/ Start(ClassPrograms)

ResolveSpec == ResolveInit /\ [][ResolveNext]_vars

\* program.resolveType(node, contextualTypeArguments, reportNotFound) for a type node of file a:
\* a plain name, or a name with one type argument.  A call whose recursion has no end
\* never returns (the call stack overflows): outcome "diverged", nothing changed.
ResolveType ==
  /\ Resolving
  /\ \E name \in {"i32", "t", "u", "w", "zz", "T", "p"},
        typeArguments \in {<<>>, <<TypeNode("a", "i32")>>, <<TypeNode("a", "zz")>>, <<TypeNode("a", "T")>>},
        contextualTypeArguments \in ContextChoices, reportNotFound \in BOOLEAN :
       /\ typeArguments # <<>> => name \in {"t", "T"}
       /\ LET node == [TypeNode("a", name) EXCEPT !.typeArguments = typeArguments]
              diverges == resolveTypeReenters(Prog, node, contextualTypeArguments, {})
              resolved == IF diverges THEN [program |-> Prog, type |-> NoType]
                          ELSE resolveType(Prog, node, contextualTypeArguments, reportNotFound)
          IN /\ Commit(resolved.program)
             /\ calls' = Append(calls, Call("resolveType", Null, None, contextualTypeArguments, NoNode, Null,
                                            IF diverges THEN "diverged" ELSE "returned", Null)
                                         @@ [node |-> node, reportNotFound |-> reportNotFound,
                                             type |-> resolved.type])

TypeNext == Next \/ ResolveType

\* initialize() on a small program or on a program of type aliases, and then resolveType
TypeInit == Start(SmallPrograms) \/ Start(TypePrograms)

TypeSpec == TypeInit /\ [][TypeNext]_vars

\* the same on type aliases that refer to themselves or to each other
CyclicTypeInit == Start(SmallPrograms) \/ Start(CyclicTypePrograms)

CyclicTypeSpec == CyclicTypeInit /\ [][TypeNext]_vars

(***************************************************************************)
(* A Function and its methods: locals, temporary locals, break contexts    *)
(***************************************************************************)
\* the longest sequence of method calls on the Function
MaxSteps == 4

\* class C { static s(x: i32): void {}  m(x: i32): void {} }  function g(x: i32, y: f64): void {}
FunctionStatements ==
  << ClassDeclaration("CLASS", "a", PATH_DELIMITER, "C", {}, <<>>, <<>>,
       << MethodDeclaration("a/C", "s", {"STATIC"}, <<>>,
                            <<ParameterNode("x", TypeNode("a", "i32"))>>, TypeNode("a", "void")),
          MethodDeclaration("a/C", "m", {}, <<>>,
                            <<ParameterNode("x", TypeNode("a", "i32"))>>, TypeNode("a", "void")) >>),
     FunctionDeclaration("a", PATH_DELIMITER, "g", {}, <<>>, <<>>,
                         <<ParameterNode("x", TypeNode("a", "i32")), ParameterNode("y", TypeNode("a", "f64"))>>,
                         TypeNode("a", "void")) >>

\* new Function(prototype, internalName, null, parameters, void, instanceMethodOf) for the
\* prototype of the given internal name, its parameters typed as declared
constructFunction(class, prototype, instanceMethodOf) ==
  Function(class.program, prototype, class.program.entities[prototype].internalName, None,
           [i \in 1..Len(class.program.entities[prototype].declaration.parameters) |->
              Parameter(class.program.entities[prototype].declaration.parameters[i].name,
                        class.program.entities[prototype].declaration.parameters[i].type.identifier)],
           "void", instanceMethodOf)

\* C.resolve([], null) and then the constructor, with the Class or with null
constructOn(class, name, instance) ==
  constructFunction(class,
                    CHOOSE r \in 1..Len(class.program.entities) :
                      /\ class.program.entities[r].kind = "FUNCTION_PROTOTYPE"
                      /\ class.program.entities[r].internalName = name,
                    IF instance THEN class.result ELSE Null)

resolveC(bound) == ClassPrototype_resolve(bound, bound.elements["a/C"], <<>>, None)

\* the state in which a Function has just been constructed
Constructed(constructed) ==
  /\ constructed.outcome = "returned"
  /\ sources = <<Source("a", FunctionStatements)>>
  /\ target = "WASM32"
  /\ elements = constructed.program.elements
  /\ exports = constructed.program.exports
  /\ types = constructed.program.types
  /\ typeAliases = constructed.program.typeAliases
  /\ entities = constructed.program.entities
  /\ diagnostics = constructed.program.diagnostics
  /\ queuedExports = <<>>
  /\ queuedImports = <<>>
  /\ pc = "done"
  /\ pos = Len(FunctionStatements) + 1
  /\ importIndex = 1
  /\ referencedName = ""
  /\ exportIndex = 1
  /\ currentExport = 0
  /\ calls = <<>>

\* the state after initialize() on that file, C.resolve([], null) and the construction
\* of a Function for one of the three prototypes, with the Class or with null; a
\* constructor that throws constructs nothing
FunctionInit ==
  \E name \in {"a/C.s", "a/C#m", "a/g"}, instance \in BOOLEAN :
     Constructed(constructOn(resolveC(initializeStatements(EmptyProgram("WASM32"), FunctionStatements)),
                             name, instance))

\* the Function under test
TheFunction == CHOOSE r \in 1..Len(entities) : entities[r].kind = "FUNCTION"

Calling ==
  /\ pc = "done"
  /\ Len(calls) < MaxSteps
  /\ UNCHANGED <<sources, target, types, pc, pos, importIndex, referencedName, exportIndex, currentExport>>

\* the record of a method call in the log
MethodCall(op, outcome, result) == Call(op, Null, None, None, NoNode, TheFunction, outcome, result)

\* function.addLocal(type, name)
AddLocal ==
  /\ Calling
  /\ \E name \in {"", "x", "this"} :
       LET added == addLocal(Prog, TheFunction, "i32", name)
       IN /\ Commit(added.program)
          /\ calls' = Append(calls, MethodCall("addLocal", added.outcome, added.result)
                                      @@ [type |-> "i32", name |-> name])

\* getTempLocal, were it to leave the local it returns on the free-list
GetTempLocalPeeking ==
  /\ Calling
  /\ \E type \in {"i32", "f64", "void"} :
       LET native == toNativeType(type)
           temps == IF native \in NativeTypes THEN entities[TheFunction].temps[native] ELSE None
           got == IF native \notin NativeTypes
                  THEN [program |-> Prog, outcome |-> "threw", result |-> Null]
                  ELSE IF temps # None /\ Len(temps[1]) > 0
                  THEN [program |-> Prog, outcome |-> "returned", result |-> temps[1][Len(temps[1])]]
                  ELSE addLocal(Prog, TheFunction, type, "")
       IN /\ Commit(got.program)
          /\ calls' = Append(calls, MethodCall("getTempLocal", got.outcome, got.result) @@ [type |-> type])

\* function.getTempLocal(type)
GetTempLocal ==
  /\ Calling
  /\ \E type \in {"i32", "f64", "void"} :
       LET native == toNativeType(type)
           temps == IF native \in NativeTypes THEN entities[TheFunction].temps[native] ELSE None
           got == IF native \notin NativeTypes
                  THEN [program |-> Prog, outcome |-> "threw", result |-> Null]
                  ELSE IF temps # None /\ Len(temps[1]) > 0
                  THEN [program |-> [Prog EXCEPT !.entities[TheFunction].temps[native] =
                                       Some(SubSeq(temps[1], 1, Len(temps[1]) - 1))],
                        outcome |-> "returned", result |-> temps[1][Len(temps[1])]]
                  ELSE addLocal(Prog, TheFunction, type, "")
       IN /\ Commit(got.program)
          /\ calls' = Append(calls, MethodCall("getTempLocal", got.outcome, got.result) @@ [type |-> type])

\* function.freeTempLocal(local), for a local an earlier call returned
FreeTempLocal ==
  /\ Calling
  /\ \E local \in {calls[i].result : i \in 1..Len(calls)} \ {Null} :
       LET native == toNativeType(entities[local].type)
           temps == entities[TheFunction].temps[native]
       IN /\ Commit([Prog EXCEPT !.entities[TheFunction].temps[native] =
                       Some(Append(IF temps # None THEN temps[1] ELSE <<>>, local))])
          /\ calls' = Append(calls, MethodCall("freeTempLocal", "returned", Null) @@ [local |-> local])

\* getAndFreeTempLocal, were it to allocate whenever called
GetAndFreeTempLocalAllocating ==
  /\ Calling
  /\ \E type \in {"i32", "u8", "f64"} :
       LET native == toNativeType(type)
           temps == IF entities[TheFunction].temps[native] # None
                    THEN entities[TheFunction].temps[native][1] ELSE <<>>
           added == addLocal(Prog, TheFunction, type, "")
       IN /\ Commit([added.program EXCEPT !.entities[TheFunction].temps[native] =
                       Some(Append(temps, added.result))])
          /\ calls' = Append(calls, MethodCall("getAndFreeTempLocal", "returned", added.result) @@ [type |-> type])

\* function.getAndFreeTempLocal(type)
GetAndFreeTempLocal ==
  /\ Calling
  /\ \E type \in {"i32", "u8", "f64"} :
       LET native == toNativeType(type)
           temps == IF entities[TheFunction].temps[native] # None
                    THEN entities[TheFunction].temps[native][1] ELSE <<>>
           added == addLocal(Prog, TheFunction, type, "")
           got == IF Len(temps) > 0
                  THEN [program |-> Prog, result |-> temps[Len(temps)]]
                  ELSE [program |-> [added.program EXCEPT !.entities[TheFunction].temps[native] =
                                       Some(<<added.result>>)],
                        result |-> added.result]
       IN /\ Commit(got.program)
          /\ calls' = Append(calls, MethodCall("getAndFreeTempLocal", "returned", got.result) @@ [type |-> type])

\* function.enterBreakContext(); id is the id pushed, label the string returned,
\* previous the breakContext the call found
EnterBreakContext ==
  /\ Calling
  /\ LET this == entities[TheFunction]
         id == this.nextBreakId
     IN /\ Commit([Prog EXCEPT !.entities[TheFunction].nextBreakId = id + 1,
                               !.entities[TheFunction].breakStack =
                                  IF @ = None THEN Some(<<id>>) ELSE Some(Append(@[1], id)),
                               !.entities[TheFunction].breakContext = Some(ToString(id))])
        /\ calls' = Append(calls, MethodCall("enterBreakContext", "returned", Null)
                                    @@ [label |-> ToString(id), previous |-> this.breakContext, id |-> id])

\* leaveBreakContext, were the label taken from the id it pops
LeaveBreakContextPopped ==
  /\ Calling
  /\ LET this == entities[TheFunction]
         length == Len(this.breakStack[1])
     IN IF this.breakStack = None \/ length = 0
        THEN /\ Commit(Prog)
             /\ calls' = Append(calls, MethodCall("leaveBreakContext", "threw", Null))
        ELSE /\ Commit([Prog EXCEPT !.entities[TheFunction].breakStack =
                                       IF length > 1 THEN Some(SubSeq(@[1], 1, length - 1)) ELSE None,
                                    !.entities[TheFunction].breakContext =
                                       IF length > 1 THEN Some(ToString(this.breakStack[1][length]))
                                       ELSE None])
             /\ calls' = Append(calls, MethodCall("leaveBreakContext", "returned", Null))

\* function.leaveBreakContext(); a failed assert throws and changes nothing
LeaveBreakContext ==
  /\ Calling
  /\ LET this == entities[TheFunction]
         length == Len(this.breakStack[1])
     IN IF this.breakStack = None \/ length = 0
        THEN /\ Commit(Prog)
             /\ calls' = Append(calls, MethodCall("leaveBreakContext", "threw", Null))
        ELSE /\ Commit([Prog EXCEPT !.entities[TheFunction].breakStack =
                                       IF length > 1 THEN Some(SubSeq(@[1], 1, length - 1)) ELSE None,
                                    !.entities[TheFunction].breakContext =
                                       IF length > 1 THEN Some(ToString(this.breakStack[1][length - 1]))
                                       ELSE None])
             /\ calls' = Append(calls, MethodCall("leaveBreakContext", "returned", Null))

\* finalize, were it to start the ids over
FinalizeResetting ==
  /\ Calling
  /\ LET this == entities[TheFunction]
     IN IF this.breakStack # None /\ Len(this.breakStack[1]) # 0
        THEN /\ Commit(Prog)
             /\ calls' = Append(calls, MethodCall("finalize", "threw", Null))
        ELSE /\ Commit([Prog EXCEPT !.entities[TheFunction].breakStack = None,
                                    !.entities[TheFunction].breakContext = None,
                                    !.entities[TheFunction].nextBreakId = 0,
                                    !.entities[TheFunction].temps = [t \in NativeTypes |-> None]])
             /\ calls' = Append(calls, MethodCall("finalize", "returned", Null))

\* function.finalize(); a failed assert throws and changes nothing
Finalize ==
  /\ Calling
  /\ LET this == entities[TheFunction]
     IN IF this.breakStack # None /\ Len(this.breakStack[1]) # 0
        THEN /\ Commit(Prog)
             /\ calls' = Append(calls, MethodCall("finalize", "threw", Null))
        ELSE /\ Commit([Prog EXCEPT !.entities[TheFunction].breakStack = None,
                                    !.entities[TheFunction].breakContext = None,
                                    !.entities[TheFunction].temps = [t \in NativeTypes |-> None]])
             /\ calls' = Append(calls, MethodCall("finalize", "returned", Null))

FunctionNext ==
  \/ AddLocal
  \/ GetTempLocal
  \/ FreeTempLocal
  \/ GetAndFreeTempLocal
  \/ EnterBreakContext
  \/ LeaveBreakContext
  \/ Finalize

FunctionSpec == FunctionInit /\ [][FunctionNext]_vars

(***************************************************************************)
(* Claims about the binder                                                 *)
(***************************************************************************)
Files(srcs) == {srcs[i] : i \in 1..Len(srcs)}

Done == pc = "done"

DiagnosticsWith(code) == {i \in 1..Len(diagnostics) : diagnostics[i].code = code}

\* the diagnostics a step appends
Emitted == SubSeq(diagnostics', Len(diagnostics) + 1, Len(diagnostics'))

EmittedWith(code, args) == {i \in 1..Len(Emitted) : Emitted[i] = [code |-> code, args |-> args]}

\* S2: a re-exports f from b, b declares and exports f, main imports f from a
ReExportScenario ==
  /\ Len(sources) = 3
  /\ Files(sources) = { Source("a", <<ExportStatement("a", "f", "f", "b")>>),
                        Source("b", <<FunctionStatement("b", {"EXPORT"}, <<>>)>>),
                        Source("main", <<ImportStatement("main", "f", "f", "a")>>) }

\* C1: in the re-export scenario S2, in every order of the three files, once
\* initialize is done exports["a/f"], exports["b/f"] and elements["main/f"]
\* all exist and are the same entity.
C1_ReExportBindsOneEntity ==
  (Done /\ ReExportScenario) =>
     /\ Get(exports, "b/f") # Null
     /\ Get(exports, "a/f") = Get(exports, "b/f")
     /\ Get(elements, "main/f") = Get(exports, "b/f")

\* A re-exports f from B, B re-exports f from C, C declares and exports f
ReExportChain(A, B, C) ==
  /\ Len(sources) = 3
  /\ Files(sources) = { Source(A, <<ExportStatement(A, "f", "f", B)>>),
                        Source(B, <<ExportStatement(B, "f", "f", C)>>),
                        Source(C, <<FunctionStatement(C, {"EXPORT"}, <<>>)>>) }

\* C2: for a re-export chain A -> B -> C, bound in any order, once initialize
\* is done exports["A/f"] is the entity elements["C/f"].
C2_ReExportChainClosure ==
  \A A, B, C \in Paths :
     (Done /\ ReExportChain(A, B, C)) =>
        /\ Get(elements, C \o "/f") # Null
        /\ Get(exports, A \o "/f") = Get(elements, C \o "/f")

\* the files a file re-exports f from
ReExportsFrom(path) ==
  {q \in Paths : \E src \in Files(sources) :
     /\ src.internalPath = path
     /\ \E i \in 1..Len(src.statements) : src.statements[i] = ExportStatement(path, "f", "f", q)}

RECURSIVE ReExportReach(_, _)
ReExportReach(from, n) ==
  IF n = 0 THEN from
  ELSE ReExportReach(from \cup UNION {ReExportsFrom(q) : q \in from}, n - 1)

\* the re-export statements of the sources form a cycle
ReExportCycle == \E path \in Paths : path \in ReExportReach(ReExportsFrom(path), Cardinality(Paths))

\* C3: when the re-export statements form a cycle, initialize terminates
\* (here: reaches its end), having reported one Module_0_has_no_exported_member_1.
C3_ReExportCycleTerminates ==
  ReExportCycle => <>(Done /\ Cardinality(DiagnosticsWith(Module_0_has_no_exported_member_1)) = 1)

\* C4: a step of initialize never rebinds an internal name of elements that is
\* bound to an entity.
C4_ElementsNeverRebound ==
  [][\A n \in DOMAIN elements : elements[n] # Null => Get(elements', n) = elements[n]]_vars

\* the internal name a top-level statement registers under
DeclaredName(statement) ==
  CASE statement.kind = "VARIABLE" -> statement.declarations[1].internalName
    [] statement.kind = "IMPORT" ->
         (IF Len(statement.declarations) # 0 THEN statement.declarations[1].internalName
          ELSE statement.source \o "/" \o statement.namespaceName)
    [] statement.kind \in {"CLASS", "ENUM", "FUNCTION", "INTERFACE", "NAMESPACE"} -> statement.internalName
    [] OTHER -> ""

\* the binding loop is at a statement of one of the kinds whose internal name is a key of elements
Collision(kinds) ==
  /\ pc = "bind"
  /\ pos <= Len(Statements(sources))
  /\ Statement.kind \in kinds
  /\ Has(elements, DeclaredName(Statement))

C6_ExportsNeverRebound ==
  [][\A e \in DOMAIN exports : exports[e] # Null => Get(exports', e) = exports[e]]_vars

\* the external name a top-level statement tries to bind in exports, "" when it binds none
ExportedName(statement) ==
  CASE statement.kind = "VARIABLE" ->
         (IF "EXPORT" \in statement.declarations[1].modifiers THEN statement.declarations[1].internalName ELSE "")
    [] statement.kind \in {"CLASS", "ENUM", "FUNCTION", "INTERFACE", "NAMESPACE"} ->
         (IF "EXPORT" \in statement.modifiers THEN statement.internalName ELSE "")
    [] statement.kind = "EXPORT" ->
         statement.members[1].source \o PATH_DELIMITER \o statement.members[1].externalIdentifier
    [] OTHER -> ""

\* the binding loop is at a statement that gets as far as binding an external
\* name that is already a key of exports
ExportCollision ==
  /\ pc = "bind"
  /\ pos <= Len(Statements(sources))
  /\ ExportedName(Statement) # ""
  /\ Has(exports, ExportedName(Statement))
  /\ Statement.kind # "EXPORT" => ~Has(elements, DeclaredName(Statement))

\* C7: binding a declaration or export statement whose external name is already
\* a key of exports emits Export_declaration_conflicts_with_exported_declaration_of_0
\* for that name, whatever the kind of the declaration.
C7_ExportConflictDiagnostic ==
  [][ExportCollision
       => EmittedWith(Export_declaration_conflicts_with_exported_declaration_of_0,
                      <<ExportedName(Statement)>>) # {}]_vars

(***************************************************************************)
(* Claims about the resolver                                               *)
(***************************************************************************)
LastCall == calls[Len(calls)]

\* the namespaces around a function prototype, innermost first
RECURSIVE NamespaceChain(_)
NamespaceChain(namespace) ==
  IF namespace = Null THEN <<>> ELSE <<namespace>> \o NamespaceChain(entities[namespace].namespace)

\* what each scope holds under the identifier's name, in the order of the claim: the
\* function's locals, its namespaces from the innermost outwards, the file, the globals
Scopes(identifier, function) ==
  LET chain == NamespaceChain(entities[entities[function].prototype].namespace)
  IN <<Get(entities[function].locals, identifier.name)>>
       \o [i \in 1..Len(chain) |-> Get(elements, entities[chain[i]].internalName \o "." \o identifier.name)]
       \o <<Get(elements, identifier.source \o "/" \o identifier.name), Get(elements, identifier.name)>>

FirstHit(scopes) ==
  IF \A i \in 1..Len(scopes) : scopes[i] = Null THEN Null
  ELSE scopes[CHOOSE i \in 1..Len(scopes) : scopes[i] # Null /\ \A j \in 1..(i - 1) : scopes[j] = Null]

\* the last call resolved f, written in file a, from inside the function of this internal name
ResolvedFFrom(internalName) ==
  /\ calls # <<>>
  /\ LastCall.op = "resolveIdentifier"
  /\ LastCall.identifier = IdentifierExpression("a", "f")
  /\ entities[entities[LastCall.contextualFunction].prototype].internalName = internalName
  /\ Get(elements, "a/N.f") # Null
  /\ Get(elements, "a/f") # Null

\* C8: resolveIdentifier returns the first hit in the order local, namespaces
\* of the function's prototype from the innermost outwards, file, global (null
\* when there is none); with namespace N { function f } and a top-level f,
\* f resolves to N.f from inside N.f and to the top-level f from a top-level function.
C8_ResolveIdentifierOrder ==
  /\ (calls # <<>> /\ LastCall.op = "resolveIdentifier")
       => LastCall.result = FirstHit(Scopes(LastCall.identifier, LastCall.contextualFunction))
  /\ ResolvedFFrom("a/N.f") => LastCall.result = Get(elements, "a/N.f")
  /\ ResolvedFFrom("a/t") => LastCall.result = Get(elements, "a/f")

\* f has been resolved from inside N.f, with a top-level f in the file, to N.f
C8_ResolvedInsideNamespace ==
  /\ ResolvedFFrom("a/N.f")
  /\ LastCall.result = Get(elements, "a/N.f")
  /\ LastCall.result # Get(elements, "a/f")

\* the calls of FunctionPrototype.resolve that returned a Function
SuccessfulResolves ==
  {i \in 1..Len(calls) : calls[i].op = "resolve" /\ calls[i].outcome = "returned" /\ calls[i].result # Null}

\* the key a list of type arguments serializes to
SerializedKey(typeArguments) == IF typeArguments = None THEN "" ELSE typesToString(typeArguments[1], "", "")

\* C9: two successful calls of resolve on one FunctionPrototype return the same
\* Function exactly when their type arguments serialize to the same key; for
\* function id<T>(x: T): T, resolve([i32]) returns a Function whose parameter
\* and return type are i32.
C9_MonomorphizationCache ==
  /\ \A i, j \in SuccessfulResolves :
       calls[i].prototype = calls[j].prototype
         => ((SerializedKey(calls[i].typeArguments) = SerializedKey(calls[j].typeArguments))
               <=> (calls[i].result = calls[j].result))
  /\ \A i \in SuccessfulResolves :
       (entities[calls[i].prototype].declaration = IdDeclaration /\ calls[i].typeArguments = Some(<<"i32">>))
         => /\ entities[calls[i].result].kind = "FUNCTION"
            /\ entities[calls[i].result].parameters = <<Parameter("x", "i32")>>
            /\ entities[calls[i].result].returnType = "i32"

\* id has been resolved twice with [i32], and both calls returned the same Function
C9_IdResolvedTwice ==
  /\ Len(calls) = 2
  /\ SuccessfulResolves = {1, 2}
  /\ entities[calls[1].prototype].declaration = IdDeclaration
  /\ calls[2].prototype = calls[1].prototype
  /\ calls[1].typeArguments = Some(<<"i32">>)
  /\ calls[2].typeArguments = Some(<<"i32">>)
  /\ calls[2].result = calls[1].result

\* the calls of resolve that produced a Function: the first to return it
ProducingResolves == {i \in SuccessfulResolves : \A j \in 1..(i - 1) : calls[j].result # calls[i].result}

\* a Function's contextualTypeArguments, null read as the empty mapping
ContextualMapping(function) ==
  IF entities[function].contextualTypeArguments = None THEN EmptyMap
  ELSE entities[function].contextualTypeArguments[1]

\* C10: the Function produced by resolve(typeArguments, inherited) carries in
\* contextualTypeArguments every inherited entry whose key is not one of its own
\* type parameters, and maps each own type parameter to its type argument.
C10_ContextualTypeArguments ==
  \A i \in ProducingResolves :
     LET typeParameters == entities[calls[i].prototype].declaration.typeParameters
         typeArguments == IF calls[i].typeArguments = None THEN <<>> ELSE calls[i].typeArguments[1]
         inherited == IF calls[i].contextualTypeArguments = None THEN EmptyMap
                      ELSE calls[i].contextualTypeArguments[1]
         mapping == ContextualMapping(calls[i].result)
     IN /\ \A n \in DOMAIN inherited :
             (\A j \in 1..Len(typeParameters) : typeParameters[j] # n)
               => (n \in DOMAIN mapping /\ mapping[n] = inherited[n])
        /\ \A j \in 1..Len(typeParameters) :
             j <= Len(typeArguments)
               => (typeParameters[j] \in DOMAIN mapping /\ mapping[typeParameters[j]] = typeArguments[j])

\* the calls of ClassPrototype.resolve that returned a Class
ClassResolves ==
  {i \in 1..Len(calls) : calls[i].op = "resolveClass" /\ calls[i].outcome = "returned" /\ calls[i].result # Null}

\* the Class call i returned carries the inherited entries of the call that are not
\* own type parameters, and maps each own type parameter to its type argument
CarriesContext(i) ==
  LET typeParameters == entities[calls[i].prototype].declaration.typeParameters
      typeArguments == calls[i].typeArguments[1]
      inherited == IF calls[i].contextualTypeArguments = None THEN EmptyMap
                   ELSE calls[i].contextualTypeArguments[1]
      mapping == ContextualMapping(calls[i].result)
  IN /\ \A n \in DOMAIN inherited :
          (\A j \in 1..Len(typeParameters) : typeParameters[j] # n)
            => (n \in DOMAIN mapping /\ mapping[n] = inherited[n])
     /\ \A j \in 1..Len(typeParameters) :
          /\ j <= Len(typeArguments)
          /\ typeParameters[j] \in DOMAIN mapping
          /\ mapping[typeParameters[j]] = typeArguments[j]

\* C11 (as stated): every Class returned by ClassPrototype.resolve(typeArguments,
\* inherited) carries the inherited entries that are not own type parameters
\* and maps each own type parameter to its type argument.
C11_ReturnedClassCarriesContext ==
  \A i \in ClassResolves : CarriesContext(i)

\* C11 (amended): every Class that ClassPrototype.resolve(typeArguments, inherited)
\* creates, that is, returns for the first time, carries the inherited entries
\* that are not own type parameters and maps each own type parameter to its
\* type argument; a later call with the same type arguments returns that Class
\* as it is.
C11_CreatedClassCarriesContext ==
  \A i \in ClassResolves :
     /\ (\A j \in 1..(i - 1) : calls[j].result # calls[i].result) => CarriesContext(i)
     /\ \A j \in ClassResolves :
          (calls[j].prototype = calls[i].prototype /\ calls[j].typeArguments = calls[i].typeArguments)
            => calls[j].result = calls[i].result

\* C<T> has been resolved with [i32] under {T -> f64, V -> f64}: the Class maps T to i32 and V to f64
C11_GenericClassResolved ==
  /\ ClassResolves # {}
  /\ LET i == Len(calls)
     IN /\ i \in ClassResolves
        /\ entities[calls[i].prototype].internalName = "a/C"
        /\ calls[i].typeArguments = Some(<<"i32">>)
        /\ calls[i].contextualTypeArguments = Some([n \in {"T", "V"} |-> "f64"])
        /\ ContextualMapping(calls[i].result) = [n \in {"T", "V"} |-> IF n = "T" THEN "i32" ELSE "f64"]

\* this step is a call of resolveTypeArguments
CallsResolveTypeArguments == Len(calls') = Len(calls) + 1 /\ calls'[Len(calls')].op = "resolveTypeArguments"

\* C12: a call of resolveTypeArguments emits Expected_0_type_arguments_but_got_1
\* exactly when the number of type parameters differs from the number of type
\* argument nodes (none when the list is absent), whatever alternativeReportNode is.
C12_ArityDiagnostic ==
  [][CallsResolveTypeArguments =>
       LET call == calls'[Len(calls')]
           argumentCount == IF call.typeArgumentNodes = None THEN 0 ELSE Len(call.typeArgumentNodes[1])
       IN ({i \in 1..Len(Emitted) : Emitted[i].code = Expected_0_type_arguments_but_got_1} # {})
            <=> (Len(call.typeParameters) # argumentCount)]_vars

(***************************************************************************)
(* Claims about imports                                                    *)
(***************************************************************************)
\* file m holds one exported declaration of f and nothing else, file importer
\* holds `import { f } from "m"` and nothing else
ImportOf(m, importer) ==
  /\ Len(sources) = 2
  /\ \E s \in {Statements(sources)[i] : i \in 1..Len(Statements(sources))} :
        /\ s.kind \in {"CLASS", "ENUM", "FUNCTION", "INTERFACE", "NAMESPACE", "VARIABLE"}
        /\ ExportedName(s) = m \o "/f"
        /\ Files(sources) = { Source(m, <<s>>),
                              Source(importer, <<ImportStatement(importer, "f", "f", m)>>) }

\* C13: when file m declares a top-level exported f, of whatever kind, and
\* another file imports f from m, then once initialize is done exports["m/f"]
\* exists and elements["<importer>/f"] is the same entity, whichever of
\* the two files is bound first.
C13_ImportBindsExportedEntity ==
  \A m, importer \in Paths :
     (Done /\ ImportOf(m, importer)) =>
        /\ Get(exports, m \o "/f") # Null
        /\ Get(elements, importer \o "/f") = Get(exports, m \o "/f")

\* main, bound first, imports f from b, which declares an exported enum f:
\* the import was queued and has been resolved
C13_ImportedBeforeDeclared ==
  /\ Done
  /\ ImportOf("b", "main")
  /\ sources[1].internalPath = "main"
  /\ sources[2].statements[1].kind = "ENUM"
  /\ Get(elements, "main/f") # Null
  /\ queuedImports = <<>>

\* the entity the external name leads to through exports and queuedExports,
\* following at most `fuel` re-exports; Null when it leads to none
RECURSIVE ResolvesTo(_, _)
ResolvesTo(name, fuel) ==
  LET i == QueuedIndex(queuedExports, name)
  IN IF Get(exports, name) # Null THEN Get(exports, name)
     ELSE IF i = 0 THEN Null
     ELSE IF ~queuedExports[i].isReExport THEN Get(elements, queuedExports[i].referencedName)
     ELSE IF fuel = 0 THEN Null
     ELSE ResolvesTo(queuedExports[i].referencedName, fuel - 1)

\* every file is bound, the queued imports are about to be resolved, and the
\* import queued under this internal name leads to no entity
UnresolvableImport(internalName) ==
  /\ pc = "imports"
  /\ importIndex = 1
  /\ \E i \in 1..Len(queuedImports) :
        /\ queuedImports[i].internalName = internalName
        /\ ResolvesTo(queuedImports[i].referencedName, Len(queuedExports)) = Null

\* the queued-import loop has ended: the imports it could not resolve are those
\* left in queuedImports, this import is one of them, the
\* Module_0_has_no_exported_member_1 diagnostics are one for each of them, in
\* their order, and nothing is bound under the import's internal name
ReportedMissing(internalName) ==
  LET missing == SelectSeq(diagnostics, LAMBDA d : d.code = Module_0_has_no_exported_member_1)
  IN /\ pc = "exports"
     /\ exportIndex = 1
     /\ \E i \in 1..Len(queuedImports) : queuedImports[i].internalName = internalName
     /\ [i \in 1..Len(missing) |-> missing[i].args]
          = [i \in 1..Len(queuedImports) |->
               <<queuedImports[i].declaration.path, queuedImports[i].declaration.externalIdentifier>>]
     /\ ~Has(elements, internalName)

\* C14: for every named import whose referenced external name leads to no
\* entity through exports and queued exports once all files are bound, the
\* queued-import loop of initialize ends having emitted exactly one
\* Module_0_has_no_exported_member_1 for that import, with no entry of elements
\* under the import's internal name.
C14_UnresolvedImportReported ==
  \A importer \in Paths :
     UnresolvableImport(importer \o "/f") ~> ReportedMissing(importer \o "/f")

(***************************************************************************)
(* Claims about class members                                              *)
(***************************************************************************)
\* the member declarations of the class or interface C of file a, and its prototype
Members == Statements(sources)[1].members

ClassC == Get(elements, "a/C")

IsAccessor(member, static, prefix) ==
  /\ member.kind = "METHOD"
  /\ member.name = "v"
  /\ ("STATIC" \in member.modifiers) = static
  /\ prefix \in member.modifiers

\* the one statement of the program is a class C and all its members are
\* accessors of v, static or not as said, a getter and a setter among them
AccessorPair(static) ==
  /\ Len(Statements(sources)) = 1
  /\ Statements(sources)[1].kind = "CLASS"
  /\ Statements(sources)[1].internalName = "a/C"
  /\ \A i \in 1..Len(Members) : IsAccessor(Members[i], static, "GET") \/ IsAccessor(Members[i], static, "SET")
  /\ \E i, j \in 1..Len(Members) : IsAccessor(Members[i], static, "GET") /\ IsAccessor(Members[j], static, "SET")

Properties == {r \in 1..Len(entities) : entities[r].kind = "PROPERTY"}

\* the entity is an accessor prototype of that name
IsAccessorPrototype(r, name) ==
  /\ r # Null
  /\ entities[r].kind = "FUNCTION_PROTOTYPE"
  /\ entities[r].simpleName = name

\* binding one more accessor of the class reports a duplicate and changes no entity
FurtherAccessorRejected(declaration, name) ==
  LET q == initializeMethod(Prog, declaration, ClassC)
  IN /\ q.diagnostics = Append(diagnostics, [code |-> Duplicate_identifier_0, args |-> <<name>>])
     /\ q.entities = entities
     /\ q.elements = elements

\* C15: a class whose members are a static getter and a static setter of v, in
\* either order, has one Property, found in the class's members under v and in
\* elements under the property's internal name, with getterPrototype and
\* setterPrototype both set; each further static getter or setter of v emits
\* Duplicate_identifier_0 and leaves the Property's accessors as they are.
C15_StaticAccessorPair ==
  (Done /\ AccessorPair(TRUE)) =>
     /\ Cardinality(Properties) = 1
     /\ \A P \in Properties :
           /\ Get(entities[ClassC].members, "v") = P
           /\ Get(elements, "a/C.v") = P
           /\ IsAccessorPrototype(entities[P].getterPrototype, "get:v")
           /\ IsAccessorPrototype(entities[P].setterPrototype, "set:v")
     /\ diagnostics = [i \in 1..(Len(Members) - 2) |-> [code |-> Duplicate_identifier_0, args |-> <<"a/C.v">>]]
     /\ Cardinality({r \in 1..Len(entities) : entities[r].kind = "FUNCTION_PROTOTYPE"}) = 2
     /\ \A i \in 1..Len(Members) : FurtherAccessorRejected(Members[i], "a/C.v")

\* class C { static set v; static get v; static get v } has been bound
C15_SetterGetterGetter ==
  /\ Done
  /\ AccessorPair(TRUE)
  /\ Len(Members) = 3
  /\ IsAccessor(Members[1], TRUE, "SET")
  /\ IsAccessor(Members[2], TRUE, "GET")
  /\ IsAccessor(Members[3], TRUE, "GET")
  /\ Len(diagnostics) = 1

\* C16: a class whose members are an instance getter and an instance setter of
\* v has one Property carrying both accessors, stored in the class's
\* instanceMembers under v and under no other name.
C16_InstanceAccessorPair ==
  (Done /\ AccessorPair(FALSE) /\ Len(Members) = 2) =>
     /\ Cardinality(Properties) = 1
     /\ \A P \in Properties :
           /\ IsAccessorPrototype(entities[P].getterPrototype, "get:v")
           /\ IsAccessorPrototype(entities[P].setterPrototype, "set:v")
           /\ {name \in DOMAIN entities[ClassC].instanceMembers : entities[ClassC].instanceMembers[name] = P} = {"v"}

(***************************************************************************)
(* Claims about the registration of declarations                           *)
(***************************************************************************)
\* the declaration of a top-level statement (of a variable statement, its first)
Declaration(statement) == IF statement.kind = "VARIABLE" THEN statement.declarations[1] ELSE statement

\* the binding loop is at a declaration of one of these kinds that carries
\* @global, and neither its internal name nor its bare name is a key of elements
GlobalDeclared(kinds) ==
  /\ pc = "bind"
  /\ pos <= Len(Statements(sources))
  /\ Statement.kind \in kinds
  /\ hasDecorator("global", Declaration(Statement).decorators)
  /\ ~Has(elements, Declaration(Statement).internalName)
  /\ ~Has(elements, Declaration(Statement).name)

\* C17: binding a class, enum, function, interface, namespace or variable that
\* carries @global and whose bare simple name is not yet a key of elements
\* registers it in elements under its internal name and under its bare simple
\* name, both bound to the same entity.
C17_GlobalAliasForEveryKind ==
  [][GlobalDeclared({"CLASS", "ENUM", "FUNCTION", "INTERFACE", "NAMESPACE", "VARIABLE"})
       => /\ Get(elements', Declaration(Statement).internalName) # Null
          /\ Get(elements', Declaration(Statement).name) = Get(elements', Declaration(Statement).internalName)]_vars

\* the declaration is registered in elements and no diagnostic names it
Registered(declaration) ==
  /\ Get(elements, declaration.internalName) # Null
  /\ entities[Get(elements, declaration.internalName)].declaration = declaration
  /\ \A i \in 1..Len(diagnostics) : diagnostics[i].args # <<declaration.internalName>>

\* what the members of the namespaces of these kinds are bound to: every
\* registered one is in the namespace's members under its simple name
MembersBound(kinds) ==
  \A N \in {r \in 1..Len(entities) : entities[r].kind = "NAMESPACE"} :
     \A i \in 1..Len(entities[N].declaration.members) :
        LET member == entities[N].declaration.members[i]
        IN (member.kind \in kinds /\ Registered(Declaration(member))) =>
              Get(entities[N].members, Declaration(member).name)
                = Get(elements, Declaration(member).internalName)

\* C18: once initialize is done, every class, enum, function, interface, nested
\* namespace and variable declared inside a namespace N and registered without
\* a diagnostic is found in N.members under its simple name.
C18_NamespaceMembersBySimpleName ==
  Done => MembersBound({"CLASS", "ENUM", "FUNCTION", "INTERFACE", "NAMESPACE", "VARIABLE"})

\* a field or a method that is no accessor
IsPlainMember(member, static) ==
  /\ ("STATIC" \in member.modifiers) = static
  /\ member.kind = "METHOD" => member.modifiers \cap {"GET", "SET"} = {}

\* the entities created for a member declaration: the accepted ones
Accepted(member) ==
  {r \in 1..Len(entities) :
     /\ entities[r].kind \in {"GLOBAL", "FUNCTION_PROTOTYPE", "FIELD_PROTOTYPE"}
     /\ entities[r].declaration = member}

\* C19: of the members of every bound class or interface, an instance field or
\* instance method has no entry in elements and, when accepted, is in the
\* prototype's instanceMembers under its simple name; an accepted static field
\* or static method is in the prototype's members under its simple name and in
\* elements under its internal name, and a static method's prototype has no
\* class link.
C19_MemberPlacement ==
  \A C \in {r \in 1..Len(entities) : entities[r].kind \in {"CLASS_PROTOTYPE", "INTERFACE_PROTOTYPE"}} :
     \A i \in 1..Len(entities[C].declaration.members) :
        LET member == entities[C].declaration.members[i]
        IN /\ IsPlainMember(member, FALSE) =>
                /\ ~Has(elements, member.internalName)
                /\ \A r \in Accepted(member) :
                      /\ Get(entities[C].instanceMembers, member.name) = r
                      /\ Get(entities[C].members, member.name) # r
                      /\ \A n \in DOMAIN elements : elements[n] # r
           /\ IsPlainMember(member, TRUE) =>
                \A r \in Accepted(member) :
                   /\ Get(entities[C].members, member.name) = r
                   /\ Get(elements, member.internalName) = r
                   /\ member.kind = "METHOD" => entities[r].classPrototype = Null

\* class C { static v(): void {} v: i32 } has been bound, both members accepted
C19_StaticMethodInstanceField ==
  /\ Done
  /\ Statements(sources)[1].kind = "CLASS"
  /\ Statements(sources)[1].internalName = "a/C"
  /\ Len(Members) = 2
  /\ Members[1].kind = "METHOD" /\ IsPlainMember(Members[1], TRUE)
  /\ Members[2].kind = "FIELD" /\ IsPlainMember(Members[2], FALSE)
  /\ Accepted(Members[1]) # {}
  /\ Accepted(Members[2]) # {}

(***************************************************************************)
(* Claims about property accesses                                          *)
(***************************************************************************)
\* the entity the receiver of a property access resolves to, Null when to none
ReceiverTarget(propertyAccess, contextualFunction) ==
  IF propertyAccess.expression.kind = "IDENTIFIER"
  THEN resolveIdentifier(Prog, propertyAccess.expression, contextualFunction).result
  ELSE resolvePropertyAccess(Prog, propertyAccess.expression, contextualFunction).result

\* the step is a call of resolvePropertyAccess whose receiver resolves to an
\* entity that has no member of the accessed name
MissingProperty ==
  /\ Len(calls') = Len(calls) + 1
  /\ LastCall'.op = "resolvePropertyAccess"
  /\ LET receiver == ReceiverTarget(LastCall'.propertyAccess, LastCall'.contextualFunction)
     IN /\ receiver # Null
        /\ ~Has(entities[receiver].members, LastCall'.propertyAccess.property.name)

\* C20: a call of resolvePropertyAccess whose receiver, an identifier or a
\* nested property access, resolves to an entity without a member of the
\* accessed name returns null without throwing, having emitted
\* Property_0_does_not_exist_on_type_1 with the name of the missing property
\* and the internal name of that entity.
C20_MissingPropertyReported ==
  [][MissingProperty =>
       /\ LastCall'.outcome = "returned"
       /\ LastCall'.result = Null
       /\ LET receiver == ReceiverTarget(LastCall'.propertyAccess, LastCall'.contextualFunction)
          IN Emitted = <<[code |-> Property_0_does_not_exist_on_type_1,
                          args |-> <<LastCall'.propertyAccess.property.name, entities[receiver].internalName>>]>>]_vars

(***************************************************************************)
(* Claims about type resolution                                            *)
(***************************************************************************)
\* this step is a call of resolveType
CallsResolveType == Len(calls') = Len(calls) + 1 /\ calls'[Len(calls')].op = "resolveType"

\* what the lookup order gives for a node: the placeholder of a node without type
\* arguments, else types[<source path>/<name>], types[<name>], the target of the alias
RECURSIVE LookedUp(_, _)
LookedUp(node, contextualTypeArguments) ==
  LET arguments == [i \in 1..Len(node.typeArguments) |-> LookedUp(node.typeArguments[i], contextualTypeArguments)]
      name == IF arguments = <<>> THEN node.identifier
              ELSE node.identifier \o "<" \o join(arguments, ",") \o ">"
      qualified == node.source \o "/" \o name
  IN IF \E i \in DOMAIN arguments : arguments[i] = NoType THEN NoType
     ELSE IF arguments = <<>> /\ contextualTypeArguments # None /\ name \in DOMAIN contextualTypeArguments[1]
     THEN contextualTypeArguments[1][name]
     ELSE IF qualified \in DOMAIN types THEN types[qualified]
     ELSE IF name \in DOMAIN types THEN types[name]
     ELSE IF name \in DOMAIN typeAliases THEN LookedUp(typeAliases[name], None)
     ELSE NoType

\* C21: resolveType returns the contextual placeholder of a node without type
\* arguments when there is one, else the first hit among types[<source path>/<name>],
\* types[<name>] and the alias target resolved without contextual arguments; when
\* nothing hits it returns null, and it emits Cannot_find_name_0, and nothing else,
\* exactly when it fails with reportNotFound set.
C21_ResolveTypeLookupOrder ==
  [][CallsResolveType =>
       LET call == calls'[Len(calls')]
       IN /\ call.type = LookedUp(call.node, call.contextualTypeArguments)
          /\ \A i \in 1..Len(Emitted) : Emitted[i].code = Cannot_find_name_0
          /\ (Emitted # <<>>) <=> (call.type = NoType /\ call.reportNotFound)]_vars

\* the alias T is resolved to i32 without context, its name to the placeholder f64
\* with it, and the alias p of the placeholder's name V to nothing
C21_PlaceholderBeforeAlias ==
  /\ Len(calls) = 2
  /\ \A i \in 1..2 : calls[i].op = "resolveType" /\ calls[i].contextualTypeArguments # None
  /\ calls[1].node = TypeNode("a", "T") /\ calls[1].type = "f64"
  /\ calls[2].node = TypeNode("a", "p") /\ calls[2].type = NoType /\ calls[2].reportNotFound
  /\ Has(typeAliases, "T") /\ typeAliases["T"] = TypeNode("a", "i32")
  /\ diagnostics = << [code |-> Cannot_find_name_0, args |-> <<"V">>],
                      [code |-> Cannot_find_name_0, args |-> <<"p">>] >>

\* the type declarations among statements, those of namespaces included, in the
\* order initialize visits them
RECURSIVE TypeDeclarations(_)
TypeDeclarations(statements) ==
  IF statements = <<>> THEN <<>>
  ELSE (CASE Head(statements).kind = "TYPEDECLARATION" -> <<Head(statements)>>
          [] Head(statements).kind = "NAMESPACE" -> TypeDeclarations(Head(statements).members)
          [] OTHER -> <<>>)
         \o TypeDeclarations(Tail(statements))

\* C22: whatever type declarations initialize has processed, no name is a key of both
\* types and typeAliases, every alias name is bound to the type node of its first
\* declaration, and a type declaration of a name already in types or typeAliases
\* emits Duplicate_identifier_0 and changes neither map.
C22_TypeAliasesFirstDeclaration ==
  [][LET processed == TypeDeclarations(SubSeq(Statements(sources), 1, pos' - 1))
     IN /\ DOMAIN types' \cap DOMAIN typeAliases' = {}
        /\ \A n \in DOMAIN typeAliases' :
             \E i \in 1..Len(processed) :
               /\ processed[i].name = n
               /\ processed[i].alias = typeAliases'[n]
               /\ \A j \in 1..(i - 1) : processed[j].name # n
        /\ \A i \in 1..Len(processed) : Has(types', processed[i].name) \/ Has(typeAliases', processed[i].name)
        /\ (AtStatement("TYPEDECLARATION") /\ (Has(types, Statement.name) \/ Has(typeAliases, Statement.name))
              => /\ Emitted = <<[code |-> Duplicate_identifier_0, args |-> <<Statement.name>>]>>
                 /\ types' = types
                 /\ typeAliases' = typeAliases)]_vars

\* t and n were declared twice or more and i32 is a type: the first declarations
\* stand and the four others were reported
C22_RedeclaredAliases ==
  /\ Done
  /\ DOMAIN typeAliases = {"t", "n"}
  /\ typeAliases["t"] = TypeNode("a", "i32")
  /\ typeAliases["n"] = TypeNode("a", "i32")
  /\ [i \in 1..Len(diagnostics) |-> diagnostics[i].args] = << <<"t">>, <<"i32">>, <<"t">>, <<"n">> >>
  /\ \A i \in 1..Len(diagnostics) : diagnostics[i].code = Duplicate_identifier_0

(***************************************************************************)
(* Claims about monomorphization                                           *)
(***************************************************************************)
\* C23: once FunctionPrototype.resolve or ClassPrototype.resolve has created an
\* instance, program.elements has an entry for the instance's internal name, and
\* the entry is that instance.
C23_InstancesRegistered ==
  \A i \in SuccessfulResolves \cup ClassResolves :
     /\ Has(elements, entities[calls[i].result].internalName)
     /\ elements[entities[calls[i].result].internalName] = calls[i].result

\* what resolve overlays the inherited mapping with: its own type parameters, each
\* mapped to the type argument at its position
OwnTypeArguments(declaration, typeArguments) ==
  LET k == IF Len(typeArguments) < Len(declaration.typeParameters)
           THEN Len(typeArguments) ELSE Len(declaration.typeParameters)
  IN [n \in {declaration.typeParameters[i] : i \in 1..k} |->
        typeArguments[CHOOSE i \in 1..k :
                        declaration.typeParameters[i] = n
                          /\ \A j \in 1..k : declaration.typeParameters[j] = n => j <= i]]

\* the mapping a call resolve(typeArguments, inherited) resolves the signature under
CallContext(declaration, typeArguments, inherited) ==
  IF typeArguments = None \/ typeArguments = Some(<<>>) THEN inherited
  ELSE Some(OwnTypeArguments(declaration, typeArguments[1])
              @@ (IF inherited = None THEN EmptyMap ELSE inherited[1]))

\* a type node is missing, or does not resolve under the mapping
Unresolved(node, contextualTypeArguments) ==
  \/ node = NoNode
  \/ resolveType(Prog, node, contextualTypeArguments, FALSE).type = NoType

\* the signature of a prototype cannot be resolved by the call: a parameter or, unless
\* the prototype is a setter, the return type is missing or does not resolve
SignatureUnresolved(prototype, typeArguments, inherited) ==
  LET declaration == entities[prototype].declaration
      contextualTypeArguments == CallContext(declaration, typeArguments, inherited)
  IN \/ \E i \in 1..Len(declaration.parameters) :
          Unresolved(declaration.parameters[i].type, contextualTypeArguments)
     \/ /\ "SETTER" \notin entities[prototype].flags
        /\ Unresolved(declaration.returnType, contextualTypeArguments)

\* the step is a call of FunctionPrototype.resolve
ResolveCalled == Len(calls') = Len(calls) + 1 /\ calls'[Len(calls')].op = "resolve"

\* the instances of every function prototype keep their entries
InstancesKept ==
  \A r \in 1..Len(entities) :
     entities[r].kind = "FUNCTION_PROTOTYPE"
       => \A key \in DOMAIN entities[r].instances :
            /\ Has(entities'[r].instances, key)
            /\ entities'[r].instances[key] = entities[r].instances[key]

\* a call that finds no instance cached and cannot resolve the signature returns null
FailureReturned ==
  ResolveCalled
    => LET call == calls'[Len(calls')]
       IN (/\ ~Has(entities[call.prototype].instances, SerializedKey(call.typeArguments))
           /\ SignatureUnresolved(call.prototype, call.typeArguments, call.contextualTypeArguments))
            => (call.outcome = "returned" /\ call.result = Null)

\* a call that returns null leaves the instances of its prototype as they were
FailureKeepsInstances ==
  ResolveCalled
    => LET call == calls'[Len(calls')]
       IN (call.outcome = "returned" /\ call.result = Null)
            => entities'[call.prototype].instances = entities[call.prototype].instances

Keys(statement) ==
  CASE statement.kind \in {"CLASS", "ENUM", "FUNCTION", "INTERFACE", "NAMESPACE"} ->
         {statement.internalName}
           \cup (IF hasDecorator("global", statement.decorators) THEN {statement.name} ELSE {})
    [] statement.kind = "VARIABLE" ->
         UNION {{statement.declarations[i].internalName}
                  \cup (IF hasDecorator("global", statement.declarations[i].decorators)
                        THEN {statement.declarations[i].name} ELSE {}) :
                i \in 1..Len(statement.declarations)}
    [] statement.kind = "IMPORT" -> {DeclaredName(statement)}
    [] OTHER -> {}

\* binding statement i of the list emits a diagnostic
Fails(statements, i) ==
  Len(initializeStatements(EmptyProgram(target), SubSeq(statements, 1, i)).diagnostics)
    > Len(initializeStatements(EmptyProgram(target), SubSeq(statements, 1, i - 1)).diagnostics)

\* statement j is a declaration that shares no key with another statement of the list
CollidesWithNothing(statements, j) ==
  /\ statements[j].kind \in {"CLASS", "ENUM", "FUNCTION", "INTERFACE", "NAMESPACE", "VARIABLE"}
  /\ \A k \in 1..Len(statements) : k # j => Keys(statements[k]) \cap Keys(statements[j]) = {}

\* two entities are one registration: references apart, they agree
Alike(e1, e2) ==
  /\ e1.kind = e2.kind
  /\ e1.simpleName = e2.simpleName
  /\ e1.internalName = e2.internalName
  /\ e1.flags = e2.flags
  /\ e1.declaration = e2.declaration
  /\ DOMAIN e1.members = DOMAIN e2.members
  /\ DOMAIN e1.instanceMembers = DOMAIN e2.instanceMembers

\* C24: when the binding loop ends, every declaration that shares no key with another
\* statement and comes after a statement whose binding emitted a diagnostic is
\* registered in elements as it is when that statement is left out of the list.
C24_LaterSiblingsBound ==
  [][(pc = "bind" /\ pc' = "imports") =>
       LET statements == Statements(sources)
       IN \A i, j \in 1..Len(statements) :
            (i < j /\ CollidesWithNothing(statements, j) /\ Fails(statements, i))
              => LET without == initializeStatements(EmptyProgram(target),
                                                     SubSeq(statements, 1, i - 1)
                                                       \o SubSeq(statements, i + 1, Len(statements)))
                 IN \A key \in Keys(statements[j]) :
                      /\ Has(elements', key) <=> Has(without.elements, key)
                      /\ Has(elements', key)
                           => Alike(entities'[elements'[key]], without.entities[without.elements[key]])]_vars

\* the loop has ended on a list in which a statement failed and a later declaration,
\* which shares no key with another statement, is in elements
C24_BoundAfterFailure ==
  /\ pc = "imports" /\ importIndex = 1
  /\ LET statements == Statements(sources)
     IN \E i, j \in 1..Len(statements) :
          /\ i < j
          /\ CollidesWithNothing(statements, j)
          /\ Fails(statements, i)
          /\ statements[j].kind # "VARIABLE"
          /\ Has(elements, statements[j].internalName)
          /\ entities[elements[statements[j].internalName]].declaration = statements[j]

(***************************************************************************)
(* Claims about a Function's locals                                        *)
(***************************************************************************)
\* C25: in every state of a Function, after construction and after any calls of
\* addLocal, getTempLocal, freeTempLocal and getAndFreeTempLocal, locals has the
\* key "this" exactly when instanceMethodOf is not null.
C25_ThisIffInstanceMethod ==
  Has(entities[TheFunction].locals, "this") <=> (entities[TheFunction].instanceMethodOf # Null)

(***************************************************************************)
(* Claims about break contexts                                             *)
(***************************************************************************)
\* the decimal string of a natural number
RECURSIVE Decimal(_)
Decimal(n) ==
  LET digit == <<"0", "1", "2", "3", "4", "5", "6", "7", "8", "9">>
  IN IF n < 10 THEN digit[n + 1] ELSE Decimal(n \div 10) \o digit[(n % 10) + 1]

\* the break stack of a Function record, null read as the empty stack
BreakStack(function) == IF function.breakStack = None THEN <<>> ELSE function.breakStack[1]

\* the call of enterBreakContext that the returning leaveBreakContext at k matches:
\* the latest one before k not closed by a leaveBreakContext in between
RECURSIVE MatchingEnter(_, _, _)
MatchingEnter(log, k, depth) ==
  IF log[k].op = "enterBreakContext"
  THEN IF depth = 0 THEN k ELSE MatchingEnter(log, k - 1, depth - 1)
  ELSE IF log[k].op = "leaveBreakContext" /\ log[k].outcome = "returned"
  THEN MatchingEnter(log, k - 1, depth + 1)
  ELSE MatchingEnter(log, k - 1, depth)

\* C26: after calls of enterBreakContext, leaveBreakContext and finalize none of
\* which tripped an assertion, breakContext is the decimal string of the id on top
\* of the break stack, or null when the stack is empty; and leaveBreakContext sets
\* breakContext to the label that was current before the matching enterBreakContext.
C26_BreakContextTracksStack ==
  [][(\A i \in 1..Len(calls') : calls'[i].outcome # "threw") =>
       LET this == entities'[TheFunction]
           stack == BreakStack(this)
           k == Len(calls')
       IN /\ this.breakContext = IF stack # <<>> THEN Some(Decimal(stack[Len(stack)])) ELSE None
          /\ (Len(calls') = Len(calls) + 1 /\ calls'[k].op = "leaveBreakContext")
               => this.breakContext = calls'[MatchingEnter(calls', k - 1, 0)].previous]_vars

\* two contexts were entered and the inner one left: the label is the outer one's again
C26_InnerContextLeft ==
  /\ Len(calls) = 3
  /\ calls[1].op = "enterBreakContext" /\ calls[1].label = "0"
  /\ calls[2].op = "enterBreakContext" /\ calls[2].label = "1" /\ calls[2].previous = Some("0")
  /\ calls[3].op = "leaveBreakContext" /\ calls[3].outcome = "returned"
  /\ entities[TheFunction].breakContext = Some("0")
  /\ entities[TheFunction].breakStack = Some(<<0>>)

(***************************************************************************)
(* Claims about queued exports                                             *)
(***************************************************************************)
\* where the chain of queued export i ends, from the maps as they are: at an
\* element ("bound"), at a non-re-export whose element is missing ("name"), at a
\* re-export with neither an exports entry nor a queued export ("module"), or
\* nowhere ("cycle")
RECURSIVE ChainEnd(_, _)
ChainEnd(i, fuel) ==
  LET current == queuedExports[i]
  IN IF current.isReExport
     THEN IF Get(exports, current.referencedName) # Null
          THEN [kind |-> "bound", element |-> Get(exports, current.referencedName)]
          ELSE IF ~QueuedHas(queuedExports, current.referencedName)
          THEN [kind |-> "module", element |-> Null]
          ELSE IF fuel = 0
          THEN [kind |-> "cycle", element |-> Null]
          ELSE ChainEnd(QueuedIndex(queuedExports, current.referencedName), fuel - 1)
     ELSE IF Get(elements, current.referencedName) # Null
          THEN [kind |-> "bound", element |-> Get(elements, current.referencedName)]
          ELSE [kind |-> "name", element |-> Null]

AcyclicQueuedExports ==
  \A i \in 1..Len(queuedExports) : ChainEnd(i, Len(queuedExports)).kind # "cycle"

\* this step ends the do-while of one queued export
QueuedExportSettled == pc \in {"queuedExport", "queuedExportAdvance"} /\ exportIndex' = exportIndex + 1

\* C27: over an acyclic graph of queued exports, the post-pass settles every queued
\* export in exactly one of three ways: its external name is bound in exports to the
\* element its chain ends at and nothing is reported; or one Cannot_find_name_0 is
\* emitted, the chain ending at a non-re-export whose element is missing; or one
\* Module_0_has_no_exported_member_1 is emitted, a re-export link having neither an
\* exports entry nor a queued export.
C27_QueuedExportOutcome ==
  [][(QueuedExportSettled /\ AcyclicQueuedExports) =>
       LET queuedExport == queuedExports[exportIndex]
           end == ChainEnd(exportIndex, Len(queuedExports))
       IN \/ /\ end.kind = "bound"
             /\ exports' = Put(exports, queuedExport.name, end.element)
             /\ Emitted = <<>>
          \/ /\ end.kind = "name"
             /\ exports' = exports
             /\ Emitted = <<[code |-> Cannot_find_name_0, args |-> <<queuedExport.member.identifier>>]>>
          \/ /\ end.kind = "module"
             /\ exports' = exports
             /\ Emitted = <<[code |-> Module_0_has_no_exported_member_1,
                             args |-> <<queuedExport.member.path, queuedExport.member.externalIdentifier>>]>>]_vars

\* the post-pass is over: one queued export was bound through a second queued
\* export, one was reported with Cannot_find_name_0
C27_BoundThroughQueuedExport ==
  /\ Done
  /\ AcyclicQueuedExports
  /\ \E i \in 1..Len(queuedExports) :
       /\ queuedExports[i].isReExport
       /\ QueuedHas(queuedExports, queuedExports[i].referencedName)
       /\ Get(exports, queuedExports[i].name) # Null
  /\ \E i \in 1..Len(queuedExports) :
       /\ ~queuedExports[i].isReExport
       /\ DiagnosticsWith(Cannot_find_name_0) # {}

\* the non-re-export queued export whose referenced element exists that the bind-time
\* walk from `name` reaches (its index in queuedExports), 0 when it reaches none:
\* the walk follows re-exports until one of them leads to an exports entry
RECURSIVE ReachedQueuedExport(_, _)
ReachedQueuedExport(name, seen) ==
  LET i == QueuedIndex(queuedExports, name)
  IN IF i = 0 THEN 0
     ELSE IF queuedExports[i].isReExport
     THEN IF Has(exports, queuedExports[i].referencedName) \/ i \in seen THEN 0
          ELSE ReachedQueuedExport(queuedExports[i].referencedName, seen \cup {i})
     ELSE IF Has(elements, queuedExports[i].referencedName) THEN i ELSE 0

\* C28: when the bind-time walk of a named import, or of a re-export, reaches a
\* non-re-export queued export whose referenced element is in elements, the import's
\* internal name is bound in elements, respectively the re-export's external name in
\* exports, to that referenced element.
C28_WalkBindsReferencedElement ==
  [][/\ (AtStatement("IMPORT") /\ Len(Statement.declarations) # 0) =>
          LET declaration == Statement.declarations[1]
              reached == ReachedQueuedExport(Statement.internalPath \o "/" \o declaration.externalIdentifier, {})
          IN (/\ ~Has(elements, declaration.internalName)
              /\ ~Has(exports, Statement.internalPath \o "/" \o declaration.externalIdentifier)
              /\ reached # 0)
               => /\ Has(elements', declaration.internalName)
                  /\ elements'[declaration.internalName] = elements[queuedExports[reached].referencedName]
     /\ (AtStatement("EXPORT") /\ Statement.internalPath # NoPath) =>
          LET member == Statement.members[1]
              reached == ReachedQueuedExport(Statement.internalPath \o "/" \o member.identifier, {})
          IN (/\ ~Has(exports, member.source \o "/" \o member.externalIdentifier)
              /\ ~Has(exports, Statement.internalPath \o "/" \o member.identifier)
              /\ reached # 0)
               => /\ Has(exports', member.source \o "/" \o member.externalIdentifier)
                  /\ exports'[member.source \o "/" \o member.externalIdentifier]
                       = elements[queuedExports[reached].referencedName]]_vars

\* the names a bind-time walk can start from
WalkStarts == {path \o "/f" : path \in {"a", "b", "main"}}

\* C29: whatever queuedExports holds, re-exports that form a cycle or refer to
\* themselves included, the bind-time walk of initializeExport and initializeImport
\* ends, after at most one evaluation of its loop condition per queued export and
\* one more.
C29_BindTimeWalkTerminates ==
  \A name \in WalkStarts : walkQueuedExports(Prog, name, {}).steps <= Len(queuedExports) + 1

\* an import is about to be bound whose walk passes a re-export, comes to a
\* re-export that refers to itself, and is left on its return to that one
C29_WalkLeftCycle ==
  \E name \in WalkStarts :
     /\ Len(queuedExports) = 2
     /\ \A i \in 1..2 : queuedExports[i].isReExport
     /\ queuedExports[1].name = name
     /\ queuedExports[1].referencedName = queuedExports[2].name
     /\ queuedExports[2].referencedName = queuedExports[2].name
     /\ walkQueuedExports(Prog, name, {}).steps = 3
     /\ ~walkQueuedExports(Prog, name, {}).found
     /\ pc = "bind" /\ pos <= Len(Statements(sources)) /\ Statement.kind = "IMPORT"
     /\ Statement.internalPath \o "/f" = name


(***************************************************************************)
(* Claims about local indices                                              *)
(***************************************************************************)
\* the locals allocated for the Function: by its constructor and by addLocal
AllocatedLocals == {r \in 1..Len(entities) : entities[r].kind = "LOCAL"}

\* the locals registered in the Function's map of locals by name
NamedLocals == {entities[TheFunction].locals[n] : n \in DOMAIN entities[TheFunction].locals}

\* C31: the parameters of a Function have the local indices 0..p-1, or 1..p with
\* `this` at 0 in an instance method; after any calls of addLocal, getTempLocal and
\* getAndFreeTempLocal the indices of the allocated locals are pairwise distinct
\* and form the range 0..(number of locals - 1); and a local added without a name
\* is named anonymous$<index>.
C31_LocalIndicesContiguous ==
  LET this == entities[TheFunction]
      first == IF this.instanceMethodOf # Null THEN 1 ELSE 0
  IN /\ \A i \in 1..Len(this.parameters) :
          /\ Has(this.locals, this.parameters[i].name)
          /\ entities[this.locals[this.parameters[i].name]].index = first + i - 1
     /\ this.instanceMethodOf # Null
          => (Has(this.locals, "this") /\ entities[this.locals["this"]].index = 0)
     /\ \A r, s \in AllocatedLocals : entities[r].index = entities[s].index => r = s
     /\ {entities[r].index : r \in AllocatedLocals} = 0..(Cardinality(AllocatedLocals) - 1)
     /\ \A r \in AllocatedLocals \ NamedLocals :
          entities[r].simpleName = "anonymous$" \o Decimal(entities[r].index)

\* an instance method with one parameter has got two anonymous locals, of two types
C31_LocalsAddedToInstanceMethod ==
  /\ entities[TheFunction].instanceMethodOf # Null
  /\ Cardinality(AllocatedLocals) = 4
  /\ Cardinality(AllocatedLocals \ NamedLocals) = 2
  /\ \E i \in 1..Len(calls) : calls[i].op = "getAndFreeTempLocal" /\ calls[i].result \in AllocatedLocals
  /\ \E i \in 1..Len(calls) : calls[i].op = "getTempLocal" /\ calls[i].result \in AllocatedLocals

(***************************************************************************)
(* Claims about break ids                                                  *)
(***************************************************************************)
\* the calls of enterBreakContext in the log
Enters == {i \in 1..Len(calls) : calls[i].op = "enterBreakContext"}

\* C32: every id that enterBreakContext pushes is greater than every id pushed
\* before it on the same Function, whatever calls of leaveBreakContext and
\* finalize come in between, so no two calls of enterBreakContext return the same
\* label; the id just pushed is on top of the break stack.
C32_BreakIdsIncrease ==
  /\ \A i, j \in Enters :
       i < j => (calls[i].id < calls[j].id /\ calls[i].label # calls[j].label)
  /\ \A i \in Enters : calls[i].label = Decimal(calls[i].id)
  /\ (Len(calls) \in Enters)
       => LET stack == BreakStack(entities[TheFunction])
          IN stack # <<>> /\ stack[Len(stack)] = calls[Len(calls)].id

\* a context has been entered, left, the Function finalized and a context entered again
C32_EnteredAfterFinalize ==
  /\ Len(calls) = 4
  /\ calls[1].op = "enterBreakContext"
  /\ calls[2].op = "leaveBreakContext" /\ calls[2].outcome = "returned"
  /\ calls[3].op = "finalize" /\ calls[3].outcome = "returned"
  /\ calls[4].op = "enterBreakContext" /\ calls[4].label = "1"

(***************************************************************************)
(* Claims about temporary locals                                           *)
(***************************************************************************)
\* the free-list of a native type, null read as the empty list
FreeList(function, native) == IF function.temps[native] = None THEN <<>> ELSE function.temps[native][1]

\* the earlier calls of getAndFreeTempLocal with a type of the same native type as
\* the call at k, with no call of one of the given methods in between
EarlierPeeks(log, k, intervening) ==
  {i \in 1..(k - 1) :
     /\ log[i].op = "getAndFreeTempLocal"
     /\ toNativeType(log[i].type) = toNativeType(log[k].type)
     /\ \A j \in (i + 1)..(k - 1) : log[j].op \notin intervening}

\* a step that calls getAndFreeTempLocal returns a local that is then on the
\* free-list of its native type and, when an earlier call of the kind above
\* exists, returns the local that call returned and allocates nothing
PeeksAgain(intervening) ==
  (Len(calls') = Len(calls) + 1 /\ calls'[Len(calls')].op = "getAndFreeTempLocal")
    => LET k == Len(calls')
           call == calls'[k]
           free == FreeList(entities'[TheFunction], toNativeType(call.type))
       IN /\ \E n \in 1..Len(free) : free[n] = call.result
          /\ toNativeType(entities'[call.result].type) = toNativeType(call.type)
          /\ \A i \in EarlierPeeks(calls', k, intervening) :
               /\ call.result = calls'[i].result
               /\ Len(entities') = Len(entities)

\* C33: calls of getAndFreeTempLocal with types of one native type, with no call
\* of getTempLocal, freeTempLocal or finalize in between, all return the same
\* local, so that together they allocate at most one local; the local returned is
\* on the free-list of its native type after the call.
C33_PeekIdempotent == [][PeeksAgain({"getTempLocal", "freeTempLocal", "finalize"})]_vars

\* C33 as stated: the same with nothing but getTempLocal excluded in between.
C33_PeekIdempotentUnlessGet == [][PeeksAgain({"getTempLocal"})]_vars

\* getAndFreeTempLocal has been called with i32, with f64 and then with u8, and the
\* first and the last call returned the same local, the only I32 local added
C33_PeekedTwice ==
  /\ Len(calls) = 3
  /\ calls[1].op = "getAndFreeTempLocal" /\ calls[1].type = "i32"
  /\ calls[2].op = "getAndFreeTempLocal" /\ calls[2].type = "f64"
  /\ calls[3].op = "getAndFreeTempLocal" /\ calls[3].type = "u8"
  /\ calls[3].result = calls[1].result
  /\ calls[2].result # calls[1].result
  /\ Len(entities[TheFunction].additionalLocals) = 2

\* the locals held after the first k calls of the log: returned by getTempLocal and
\* not freed since
Held(log, k) ==
  {r \in {log[i].result : i \in 1..k} \ {Null} :
     \E i \in 1..k :
        /\ log[i].op = "getTempLocal" /\ log[i].result = r
        /\ \A j \in (i + 1)..k : ~(log[j].op = "freeTempLocal" /\ log[j].local = r)}

\* freeTempLocal has been applied to held locals only
FreedHeldOnly ==
  \A k \in 1..Len(calls) : calls[k].op = "freeTempLocal" => calls[k].local \in Held(calls, k - 1)

\* C34: when freeTempLocal is applied only to locals obtained from getTempLocal and
\* not yet freed, getTempLocal never returns a local that is held at the time of
\* the call, no held local is on a free-list, and no local is twice on a free-list
\* or on two of them.
C34_HeldLocalsNotReturned ==
  FreedHeldOnly
    => /\ \A k \in 1..Len(calls) :
            (calls[k].op = "getTempLocal" /\ calls[k].outcome = "returned")
              => calls[k].result \notin Held(calls, k - 1)
       /\ \A s, t \in NativeTypes :
            LET free == FreeList(entities[TheFunction], s)
                other == FreeList(entities[TheFunction], t)
            IN /\ \A m \in 1..Len(free) : free[m] \notin Held(calls, Len(calls))
               /\ \A m \in 1..Len(free), n \in 1..Len(other) :
                    free[m] = other[n] => (s = t /\ m = n)

\* a local has been obtained, freed and obtained again, and a second local obtained
\* while the first was held
C34_FreedLocalReused ==
  /\ Len(calls) = 4
  /\ FreedHeldOnly
  /\ calls[1].op = "getTempLocal" /\ calls[1].outcome = "returned"
  /\ calls[2].op = "freeTempLocal" /\ calls[2].local = calls[1].result
  /\ calls[3].op = "getTempLocal" /\ calls[3].result = calls[1].result
  /\ calls[4].op = "getTempLocal" /\ calls[4].type = calls[1].type
  /\ calls[4].result \notin {Null, calls[1].result}

(***************************************************************************)
(* Claims about the order of the source files                              *)
(***************************************************************************)
\* the orders in which the given sources can be handed to initialize
Orders(srcs) ==
  {[i \in 1..Len(srcs) |-> srcs[f[i]]] :
     f \in {f \in [1..Len(srcs) -> 1..Len(srcs)] : \A i, j \in 1..Len(srcs) : f[i] = f[j] => i = j}}

\* the declaration a name is bound to in a map of a program; NoNode when the
\* entry holds no entity
BoundDeclaration(p, map, name) ==
  IF Get(map, name) = Null THEN NoNode ELSE p.entities[map[name]].declaration

\* the internal names of the named imports of the sources
ImportedNames(srcs) ==
  {s.declarations[i].internalName :
     <<s, i>> \in {<<s, i>> \in {Statements(srcs)[n] : n \in 1..Len(Statements(srcs))} \X (1..1) :
                     s.kind = "IMPORT" /\ i <= Len(s.declarations)}}

\* two programs bind every external name and every imported internal name alike
SameBindings(p, q) ==
  /\ DOMAIN p.exports = DOMAIN q.exports
  /\ \A e \in DOMAIN p.exports : BoundDeclaration(p, p.exports, e) = BoundDeclaration(q, q.exports, e)
  /\ \A n \in ImportedNames(sources) :
       /\ Has(p.elements, n) <=> Has(q.elements, n)
       /\ BoundDeclaration(p, p.elements, n) = BoundDeclaration(q, q.elements, n)

\* C35: when initialize has bound the sources without a diagnostic, it binds them
\* in every other order that is free of diagnostics too to the same effect: every
\* external name in exports and the internal name of every import in elements is
\* bound to the same declaration.
C35_FileOrderIndependent ==
  (Done /\ diagnostics = <<>>)
    => \A permuted \in Orders(sources) :
         LET other == initialize(target, permuted)
         IN (other.terminated /\ other.program.diagnostics = <<>>)
              => SameBindings(Prog, other.program)

\* initialize as a function agrees with initialize step by step
InitializeAgrees ==
  Done => LET whole == initialize(target, sources)
          IN whole.terminated /\ whole.program = Prog

(***************************************************************************)
(* Claims about resolving methods and classes                              *)
(***************************************************************************)
\* the call gives no more type arguments than the prototype has type parameters
ArityRespected(call) ==
  \/ call.typeArguments = None
  \/ Len(call.typeArguments[1]) <= Len(entities[call.prototype].declaration.typeParameters)

\* C36: FunctionPrototype.resolve on the prototype of an instance method (one
\* created with a classPrototype) whose parameters and return type all resolve
\* returns a Function; no assertion of the Function constructor fails.
C36_InstanceMethodResolves ==
  \A i \in 1..Len(calls) :
     (/\ calls[i].op = "resolve"
      /\ entities[calls[i].prototype].classPrototype # Null
      /\ ArityRespected(calls[i])
      /\ ~SignatureUnresolved(calls[i].prototype, calls[i].typeArguments, calls[i].contextualTypeArguments))
       => /\ calls[i].outcome = "returned"
          /\ calls[i].result # Null
          /\ entities[calls[i].result].kind = "FUNCTION"

\* C37: ClassPrototype.resolve, given as many type arguments as the class has type
\* parameters, returns a Class and raises no exception, for every class prototype
\* the binder has made from a declaration, whatever instance fields, methods,
\* getters and setters the class declares.
C37_ClassResolves ==
  \A i \in 1..Len(calls) :
     (/\ calls[i].op = "resolveClass"
      /\ entities[calls[i].prototype].kind = "CLASS_PROTOTYPE"
      /\ entities[calls[i].prototype].declaration # NoNode
      /\ Len(calls[i].typeArguments[1]) = Len(entities[calls[i].prototype].declaration.typeParameters))
       => /\ calls[i].outcome = "returned"
          /\ calls[i].result # Null
          /\ entities[calls[i].result].kind = "CLASS"

(***************************************************************************)
(* Claims about the termination of resolveType                             *)
(***************************************************************************)
\* C38: every call of resolveType returns, whatever type node it is given and
\* whatever initialize has put in typeAliases, aliases that refer to themselves or
\* to each other in a cycle included.
C38_ResolveTypeTerminates ==
  \A i \in 1..Len(calls) : calls[i].op = "resolveType" => calls[i].outcome = "returned"

(***************************************************************************)
(* Claims about the signature of a resolved Function                       *)
(***************************************************************************)
\* the Function has the signature its prototype declares, resolved under the
\* mapping of the call resolve(typeArguments, inherited)
SignatureResolvedUnder(function, typeArguments, inherited) ==
  LET prototype == function.prototype
      declaration == entities[prototype].declaration
      contextualTypeArguments == CallContext(declaration, typeArguments, inherited)
  IN /\ Len(function.parameters) = Len(declaration.parameters)
     /\ \A i \in 1..Len(declaration.parameters) :
          /\ declaration.parameters[i].type # NoNode
          /\ function.parameters[i] =
               Parameter(declaration.parameters[i].name,
                         resolveType(Prog, declaration.parameters[i].type, contextualTypeArguments, FALSE).type)
     /\ IF "SETTER" \in entities[prototype].flags THEN function.returnType = "void"
        ELSE /\ declaration.returnType # NoNode
             /\ function.returnType = resolveType(Prog, declaration.returnType, contextualTypeArguments, FALSE).type

\* C39: the Function that a call resolve(typeArguments, ctx) creates, finding no
\* instance cached under the serialized type arguments, has the declared parameter
\* and return types resolved under ctx overlaid with the function's own type
\* arguments; a call answered from the cache returns the cached Function as it is.
C39_CreatedFunctionSignature ==
  [][ResolveCalled =>
       LET call == calls'[Len(calls')]
           key == SerializedKey(call.typeArguments)
           instances == entities[call.prototype].instances
       IN (call.outcome = "returned" /\ call.result # Null)
            => IF Has(instances, key)
               THEN call.result = instances[key] /\ entities'[call.result] = entities[call.result]
               ELSE SignatureResolvedUnder(entities'[call.result], call.typeArguments,
                                           call.contextualTypeArguments)]_vars

\* C39 as stated: every Function a call of resolve returns, from the cache or not,
\* has the declared types resolved under that call's ctx and type arguments.
C39_ReturnedFunctionSignature ==
  \A i \in SuccessfulResolves :
     SignatureResolvedUnder(entities[calls[i].result], calls[i].typeArguments, calls[i].contextualTypeArguments)

\* id has been resolved without type arguments under T -> f64, which made a Function
\* of f64, and again without type arguments or context, which returned the same
C39_IdResolvedUnderTwoContexts ==
  /\ Len(calls) = 2
  /\ SuccessfulResolves = {1, 2}
  /\ entities[calls[1].prototype].declaration = IdDeclaration
  /\ calls[2].prototype = calls[1].prototype
  /\ calls[1].typeArguments = None /\ calls[1].contextualTypeArguments # None
  /\ calls[2].typeArguments = None /\ calls[2].contextualTypeArguments = None
  /\ calls[2].result = calls[1].result
  /\ entities[calls[1].result].parameters = <<Parameter("x", "f64")>>
  /\ entities[calls[1].result].returnType = "f64"

\* ---------------------------------------------------------------------------
\* Claims about failed registrations
\* ---------------------------------------------------------------------------

\* the step binds a top-level class, enum or function
BindsDeclaration ==
  /\ pc = "bind"
  /\ pos <= Len(Statements(sources))
  /\ Statement.kind \in {"CLASS", "ENUM", "FUNCTION"}

\* the step emits a duplicate or an export conflict naming the internal name
Reported(internalName) ==
  \E i \in 1..Len(Emitted) :
    /\ Emitted[i].code \in {Duplicate_identifier_0, Export_declaration_conflicts_with_exported_declaration_of_0}
    /\ Emitted[i].args = <<internalName>>

\* the entities the step has constructed for the declaration
ConstructedFor(declaration) ==
  {r \in (Len(entities) + 1)..Len(entities') : entities'[r].declaration = declaration}

\* after the step, r is a value of elements, of exports or of a members map
Entered(r) ==
  \/ \E k \in DOMAIN elements' : elements'[k] = r
  \/ \E k \in DOMAIN exports' : exports'[k] = r
  \/ \E x \in 1..Len(entities') :
       \/ \E k \in DOMAIN entities'[x].members : entities'[x].members[k] = r
       \/ \E k \in DOMAIN entities'[x].instanceMembers : entities'[x].instanceMembers[k] = r

====
